---------------------------- MODULE Spec2Model ----------------------------
(***************************************************************************)
(* FreelanceContractPro: the in-memory entity store (server/storage.ts),   *)
(* the HTTP routes over it (server/routes.ts) and the trust score          *)
(* (server/services/ai.ts, server/services/trust-score.ts).                *)
(*                                                                         *)
(* A Map<number, T> is a function whose DOMAIN is the set of stored ids.   *)
(* A nullable column is a sequence of length 0 (null) or 1 (the value).    *)
(* Timestamps are naturals; `now` is the wall clock read by new Date().    *)
(***************************************************************************)
EXTENDS Integers, Sequences, FiniteSets, TLC

\* ------------------------------------------------------------------ bounds
MaxTime == 1
MaxAmount == 2
MaxContracts == 2
MaxMilestones == 1
MaxPayments == 2
MaxDisputes == 1
MaxUsers == 2
MaxReviews == 1
MaxLostDisputes == 2
MaxInFlight == 2

Times == 0..MaxTime
Amounts == 1..MaxAmount

\* ------------------------------------------------------- nullable columns
None == << >>
Some(x) == << x >>
IsNull(v) == v = None
Val(v) == v[1]
Nullable(S) == {None} \cup {Some(x) : x \in S}

\* ------------------------------------------------------ shared/schema.ts
ContractStatus == {"draft", "pending", "active", "completed", "cancelled", "disputed"}
MilestoneStatus ==
  {"not_started", "in_progress", "pending_review", "ready_for_payment", "completed", "disputed"}
DisputeStatus ==
  {"open", "under_review", "resolved_for_client", "resolved_for_freelancer", "resolved_compromise"}
ResolvedStatuses == {"resolved_for_client", "resolved_for_freelancer", "resolved_compromise"}
UserType == {"freelancer", "client", "moderator"}

\* ------------------------------------------------------------------ state
VARIABLES
  users, userIdCounter,
  contracts, contractIdCounter,
  milestones, milestoneIdCounter,
  escrowPayments, escrowPaymentIdCounter,
  disputes, disputeIdCounter,
  reviews, reviewIdCounter,
  now,
  ret,
  reqs, batchBase,
  calls,
  twoFactorAuths,
  notifications, notificationIdCounter,
  apiKeys, issuedKeys

userVars == << users, userIdCounter >>
contractVars == << contracts, contractIdCounter >>
milestoneVars == << milestones, milestoneIdCounter >>
escrowVars == << escrowPayments, escrowPaymentIdCounter >>
disputeVars == << disputes, disputeIdCounter >>
reviewVars == << reviews, reviewIdCounter >>
\* HTTP requests being served, and the stored contracts and milestones at the
\* moment they arrived.
reqVars == << reqs, batchBase >>
notificationVars == << notifications, notificationIdCounter >>
\* The API keys of api-integration.ts, and every key generateApiKey has drawn.
apiKeyVars == << apiKeys, issuedKeys >>
\* The maps that only some of the specifications below write.
otherVars == << twoFactorAuths, notificationVars, apiKeyVars >>
\* The calls made so far to the scoring functions: arguments and result.
vars == << userVars, contractVars, milestoneVars, escrowVars, disputeVars, reviewVars,
           now, ret, reqVars, calls, otherVars >>

\* Map.set(id, v)
MapSet(m, id, v) == (id :> v) @@ m

\* What the last storage call returned: the stored record ("ok") or undefined.
Returned(op, id, out) == [op |-> op, id |-> id, out |-> out]

\* if (!updated) return res.status(404)...; return res.status(200).json(updated)
RouteAnswer(out) == IF out = "undefined" THEN 404 ELSE 200

\* MemStorage constructor: empty maps, every id counter 1.
Init ==
  /\ users = << >> /\ userIdCounter = 1
  /\ contracts = << >> /\ contractIdCounter = 1
  /\ milestones = << >> /\ milestoneIdCounter = 1
  /\ escrowPayments = << >> /\ escrowPaymentIdCounter = 1
  /\ disputes = << >> /\ disputeIdCounter = 1
  /\ reviews = << >> /\ reviewIdCounter = 1
  /\ now = 0
  /\ ret = Returned("constructor", 0, "ok")
  /\ reqs = << >>
  /\ batchBase = [contracts |-> << >>, milestones |-> << >>]
  /\ calls = << >>
  /\ twoFactorAuths = << >>
  /\ notifications = << >> /\ notificationIdCounter = 1
  /\ apiKeys = << >> /\ issuedKeys = {}

\* The clock new Date() reads moves forward between calls.
Tick ==
  /\ now < MaxTime
  /\ now' = now + 1
  /\ UNCHANGED << userVars, contractVars, milestoneVars, escrowVars, disputeVars,
                  reviewVars, ret, reqVars, calls,
                  otherVars >>

\* ------------------------------------------------------------- contracts
\* status: contractData.status || ContractStatus.DRAFT
CreateContract(clientId, freelancerId, status, totalAmount, startDate, endDate) ==
  /\ contracts' = MapSet(contracts, contractIdCounter,
       [clientId |-> clientId, freelancerId |-> freelancerId,
        status |-> IF IsNull(status) THEN "draft" ELSE Val(status),
        totalAmount |-> totalAmount, startDate |-> startDate, endDate |-> endDate,
        createdAt |-> now])
  /\ contractIdCounter' = contractIdCounter + 1
  /\ ret' = Returned("createContract", contractIdCounter, "ok")
  /\ UNCHANGED << userVars, milestoneVars, escrowVars, disputeVars, reviewVars, now, reqVars, calls,
                  otherVars >>

\* { ...contract, status }
ContractWithStatus(contract, status) == [contract EXCEPT !.status = status]

\* (a status update that also stamps the contract's endDate with the clock)
UpdateStatusAndEndDate(id, status) ==
  /\ IF id \notin DOMAIN contracts
       THEN /\ ret' = Returned("updateContractStatus", id, "undefined")
            /\ UNCHANGED contracts
       ELSE /\ contracts' = MapSet(contracts, id,
                 [ContractWithStatus(contracts[id], status) EXCEPT !.endDate = now])
            /\ ret' = Returned("updateContractStatus", id, "ok")
  /\ UNCHANGED << userVars, contractIdCounter, milestoneVars, escrowVars, disputeVars,
                  reviewVars, now, reqVars, calls,
                  otherVars >>

UpdateContractStatus(id, status) ==
  /\ IF id \notin DOMAIN contracts
       THEN /\ ret' = Returned("updateContractStatus", id, "undefined")
            /\ UNCHANGED contracts
       ELSE /\ contracts' = MapSet(contracts, id, ContractWithStatus(contracts[id], status))
            /\ ret' = Returned("updateContractStatus", id, "ok")
  /\ UNCHANGED << userVars, contractIdCounter, milestoneVars, escrowVars, disputeVars,
                  reviewVars, now, reqVars, calls,
                  otherVars >>

\* ------------------------------------------------------------ milestones
\* status: milestoneData.status || MilestoneStatus.NOT_STARTED; completedDate: null
CreateMilestone(contractId, amount, status, dueDate) ==
  /\ milestones' = MapSet(milestones, milestoneIdCounter,
       [contractId |-> contractId, amount |-> amount,
        status |-> IF IsNull(status) THEN "not_started" ELSE Val(status),
        dueDate |-> dueDate, completedDate |-> None])
  /\ milestoneIdCounter' = milestoneIdCounter + 1
  /\ ret' = Returned("createMilestone", milestoneIdCounter, "ok")
  /\ UNCHANGED << userVars, contractVars, escrowVars, disputeVars, reviewVars, now, reqVars, calls,
                  otherVars >>

\* { ...milestone, status }
MilestoneWithStatus(milestone, status) == [milestone EXCEPT !.status = status]

\* { ...milestone, status: MilestoneStatus.COMPLETED, completedDate }
CompletedMilestone(milestone, completedDate) ==
  [milestone EXCEPT !.status = "completed", !.completedDate = Some(completedDate)]

\* (a status update that stores a new record when the id is not stored)
SetMilestoneStatusOrCreate(id, status) ==
  /\ milestones' = MapSet(milestones, id,
       IF id \in DOMAIN milestones THEN MilestoneWithStatus(milestones[id], status)
       ELSE [contractId |-> 0, amount |-> 0, status |-> status, dueDate |-> now,
             completedDate |-> None])
  /\ ret' = Returned("updateMilestoneStatus", id, "ok")
  /\ UNCHANGED << userVars, contractVars, milestoneIdCounter, escrowVars, disputeVars,
                  reviewVars, now, reqVars, calls,
                  otherVars >>

UpdateMilestoneStatus(id, status) ==
  /\ IF id \notin DOMAIN milestones
       THEN /\ ret' = Returned("updateMilestoneStatus", id, "undefined")
            /\ UNCHANGED milestones
       ELSE /\ milestones' = MapSet(milestones, id, MilestoneWithStatus(milestones[id], status))
            /\ ret' = Returned("updateMilestoneStatus", id, "ok")
  /\ UNCHANGED << userVars, contractVars, milestoneIdCounter, escrowVars, disputeVars,
                  reviewVars, now, reqVars, calls,
                  otherVars >>

CompleteMilestone(id, completedDate) ==
  /\ IF id \notin DOMAIN milestones
       THEN /\ ret' = Returned("completeMilestone", id, "undefined")
            /\ UNCHANGED milestones
       ELSE /\ milestones' = MapSet(milestones, id,
                 CompletedMilestone(milestones[id], completedDate))
            /\ ret' = Returned("completeMilestone", id, "ok")
  /\ UNCHANGED << userVars, contractVars, milestoneIdCounter, escrowVars, disputeVars,
                  reviewVars, now, reqVars, calls,
                  otherVars >>

\* -------------------------------------------------------- escrow payments
\* depositedAt: now; releasedAt: null; every other column is the caller's.
CreateEscrowPayment(milestoneId, clientId, freelancerId, amount, status) ==
  /\ escrowPayments' = MapSet(escrowPayments, escrowPaymentIdCounter,
       [milestoneId |-> milestoneId, clientId |-> clientId, freelancerId |-> freelancerId,
        amount |-> amount, status |-> status, depositedAt |-> now, releasedAt |-> None])
  /\ escrowPaymentIdCounter' = escrowPaymentIdCounter + 1
  /\ ret' = Returned("createEscrowPayment", escrowPaymentIdCounter, "ok")
  /\ UNCHANGED << userVars, contractVars, milestoneVars, disputeVars, reviewVars, now, reqVars, calls,
                  otherVars >>

GetEscrowPaymentsByMilestone(milestoneId) ==
  {p \in DOMAIN escrowPayments : escrowPayments[p].milestoneId = milestoneId}

\* (a release that also moves the payment's milestone to 'ready_for_payment')
ReleaseAndMarkReady(id, releaseDate) ==
  /\ IF id \notin DOMAIN escrowPayments
       THEN /\ ret' = Returned("releaseEscrowPayment", id, "undefined")
            /\ UNCHANGED << escrowPayments, milestones >>
       ELSE /\ escrowPayments' = MapSet(escrowPayments, id,
                 [escrowPayments[id] EXCEPT !.releasedAt = Some(releaseDate)])
            /\ milestones' =
                 IF escrowPayments[id].milestoneId \in DOMAIN milestones
                   THEN MapSet(milestones, escrowPayments[id].milestoneId,
                          MilestoneWithStatus(milestones[escrowPayments[id].milestoneId],
                                              "ready_for_payment"))
                   ELSE milestones
            /\ ret' = Returned("releaseEscrowPayment", id, "ok")
  /\ UNCHANGED << userVars, contractVars, milestoneIdCounter, escrowPaymentIdCounter,
                  disputeVars, reviewVars, now, reqVars, calls,
                  otherVars >>

ReleaseEscrowPayment(id, releaseDate) ==
  /\ IF id \notin DOMAIN escrowPayments
       THEN /\ ret' = Returned("releaseEscrowPayment", id, "undefined")
            /\ UNCHANGED escrowPayments
       ELSE /\ escrowPayments' = MapSet(escrowPayments, id,
                 [escrowPayments[id] EXCEPT !.releasedAt = Some(releaseDate)])
            /\ ret' = Returned("releaseEscrowPayment", id, "ok")
  /\ UNCHANGED << userVars, contractVars, milestoneVars, escrowPaymentIdCounter,
                  disputeVars, reviewVars, now, reqVars, calls,
                  otherVars >>

\* --------------------------------------------------------------- disputes
\* createdAt: now; resolvedAt: null; status: disputeData.status || DisputeStatus.OPEN
CreateDispute(contractId, milestoneId, initiatedBy, respondent, moderatorId, status, resolution) ==
  /\ disputes' = MapSet(disputes, disputeIdCounter,
       [contractId |-> contractId, milestoneId |-> milestoneId,
        initiatedBy |-> initiatedBy, respondent |-> respondent,
        moderatorId |-> moderatorId,
        status |-> IF IsNull(status) THEN "open" ELSE Val(status),
        resolution |-> resolution, createdAt |-> now, resolvedAt |-> None])
  /\ disputeIdCounter' = disputeIdCounter + 1
  /\ ret' = Returned("createDispute", disputeIdCounter, "ok")
  /\ UNCHANGED << userVars, contractVars, milestoneVars, escrowVars, reviewVars, now, reqVars, calls,
                  otherVars >>

\* resolution: resolution || dispute.resolution
\* resolvedAt: new Date() when status is a resolved one, else dispute.resolvedAt
UpdateDisputeStatus(id, status, resolution) ==
  /\ IF id \notin DOMAIN disputes
       THEN /\ ret' = Returned("updateDisputeStatus", id, "undefined")
            /\ UNCHANGED disputes
       ELSE /\ disputes' = MapSet(disputes, id,
                 [disputes[id] EXCEPT
                    !.status = status,
                    !.resolution = IF IsNull(resolution) THEN disputes[id].resolution
                                   ELSE resolution,
                    !.resolvedAt = IF status \in ResolvedStatuses THEN Some(now)
                                   ELSE disputes[id].resolvedAt])
            /\ ret' = Returned("updateDisputeStatus", id, "ok")
  /\ UNCHANGED << userVars, contractVars, milestoneVars, escrowVars, disputeIdCounter,
                  reviewVars, now, reqVars, calls,
                  otherVars >>

AssignModerator(disputeId, moderatorId) ==
  /\ IF disputeId \notin DOMAIN disputes
       THEN /\ ret' = Returned("assignModerator", disputeId, "undefined")
            /\ UNCHANGED disputes
       ELSE /\ disputes' = MapSet(disputes, disputeId,
                 [disputes[disputeId] EXCEPT !.moderatorId = Some(moderatorId),
                                             !.status = "under_review"])
            /\ ret' = Returned("assignModerator", disputeId, "ok")
  /\ UNCHANGED << userVars, contractVars, milestoneVars, escrowVars, disputeIdCounter,
                  reviewVars, now, reqVars, calls,
                  otherVars >>

\* ------------------------------------------------------- users and reviews
\* bio and profileImage default to null; the id comes from userIdCounter.
CreateUser(userType) ==
  /\ users' = MapSet(users, userIdCounter, [userType |-> userType])
  /\ userIdCounter' = userIdCounter + 1
  /\ ret' = Returned("createUser", userIdCounter, "ok")
  /\ UNCHANGED << contractVars, milestoneVars, escrowVars, disputeVars, reviewVars, now, reqVars, calls,
                  otherVars >>

\* ---------------------------------------------- 2FA records, notifications
\* (a setup that files the record under the id of its user)
SetupTwoFactorAuthUnderUserId(userId, verified) ==
  /\ twoFactorAuths' = MapSet(twoFactorAuths, userId,
       [userId |-> userId, verified |-> IF IsNull(verified) THEN FALSE ELSE Val(verified),
        createdAt |-> now])
  /\ ret' = Returned("setupTwoFactorAuth", userId, "ok")
  /\ UNCHANGED << userVars, contractVars, milestoneVars, escrowVars, disputeVars, reviewVars,
                  now, reqVars, calls, notificationVars, apiKeyVars >>

\* The id comes from userIdCounter, the counter createUser draws from;
\* verified: twoFactorData.verified || false.
SetupTwoFactorAuth(userId, verified) ==
  /\ twoFactorAuths' = MapSet(twoFactorAuths, userIdCounter,
       [userId |-> userId, verified |-> IF IsNull(verified) THEN FALSE ELSE Val(verified),
        createdAt |-> now])
  /\ userIdCounter' = userIdCounter + 1
  /\ ret' = Returned("setupTwoFactorAuth", userIdCounter, "ok")
  /\ UNCHANGED << users, contractVars, milestoneVars, escrowVars, disputeVars, reviewVars,
                  now, reqVars, calls, notificationVars, apiKeyVars >>

CreateNotification(userId) ==
  /\ notifications' = MapSet(notifications, notificationIdCounter,
       [userId |-> userId, read |-> FALSE, createdAt |-> now])
  /\ notificationIdCounter' = notificationIdCounter + 1
  /\ ret' = Returned("createNotification", notificationIdCounter, "ok")
  /\ UNCHANGED << userVars, contractVars, milestoneVars, escrowVars, disputeVars, reviewVars,
                  now, reqVars, calls, twoFactorAuths, apiKeyVars >>

CreateReview(contractId, reviewerId, receiverId, rating) ==
  /\ reviews' = MapSet(reviews, reviewIdCounter,
       [contractId |-> contractId, reviewerId |-> reviewerId, receiverId |-> receiverId,
        rating |-> rating, createdAt |-> now])
  /\ reviewIdCounter' = reviewIdCounter + 1
  /\ ret' = Returned("createReview", reviewIdCounter, "ok")
  /\ UNCHANGED << userVars, contractVars, milestoneVars, escrowVars, disputeVars, now, reqVars, calls,
                  otherVars >>

GetReviewsByUser(userId) == {r \in DOMAIN reviews : reviews[r].receiverId = userId}

GetContractsByFreelancer(freelancerId) ==
  {c \in DOMAIN contracts : contracts[c].freelancerId = freelancerId}

GetContractsByClient(clientId) == {c \in DOMAIN contracts : contracts[c].clientId = clientId}

GetDisputesByUser(userId) ==
  {d \in DOMAIN disputes : disputes[d].initiatedBy = userId \/ disputes[d].respondent = userId}

\* A JavaScript number that is a quotient of integers: numerator n over a
\* positive denominator d (the code's doubles, taken exactly).
Rat(n, d) == [n |-> n, d |-> d]
RatEq(a, b) == a.n * b.d = b.n * a.d
RatLeq(a, b) == a.n * b.d <= b.n * a.d

RECURSIVE SumRatings(_)
SumRatings(rs) ==
  IF rs = {} THEN 0
  ELSE LET r == CHOOSE x \in rs : TRUE IN reviews[r].rating + SumRatings(rs \ {r})

\* 0 when the user has no reviews, else totalRating / reviews.length
GetUserRating(userId) ==
  LET rs == GetReviewsByUser(userId)
  IN IF Cardinality(rs) = 0 THEN Rat(0, 1) ELSE Rat(SumRatings(rs), Cardinality(rs))

\* =========================================================================
\* Milestone and escrow lifecycle: one contract's milestones and the
\* payments deposited against them, driven through the store's operations.
\* =========================================================================
MilestoneIdArgs == 1..(MaxMilestones + 1)
PaymentIdArgs == 1..(MaxPayments + 1)

NextEscrow ==
  \/ Tick
  \/ \E a \in Amounts, s \in Nullable(MilestoneStatus) :
       /\ milestoneIdCounter <= MaxMilestones
       /\ CreateMilestone(1, a, s, MaxTime)
  \/ \E id \in MilestoneIdArgs, s \in MilestoneStatus : UpdateMilestoneStatus(id, s)
  \/ \E id \in MilestoneIdArgs, t \in Times : CompleteMilestone(id, t)
  \/ \E m \in MilestoneIdArgs, a \in Amounts :
       /\ escrowPaymentIdCounter <= MaxPayments
       /\ CreateEscrowPayment(m, 1, 2, a, "deposited")
  \/ \E id \in PaymentIdArgs, t \in Times : ReleaseEscrowPayment(id, t)

SpecEscrow == Init /\ [][NextEscrow]_vars


\* C1: every milestone whose status is 'completed' has an escrow payment with a
\* non-null releasedAt and has a non-null completedDate.
C1_CompletedHasReleasedEscrowAndDate ==
  \A m \in DOMAIN milestones :
    milestones[m].status = "completed" =>
      /\ \E p \in GetEscrowPaymentsByMilestone(m) : ~IsNull(escrowPayments[p].releasedAt)
      /\ ~IsNull(milestones[m].completedDate)

\* The precondition the milestone state machine puts on completion.
ReadyWithReleasedEscrow(id) ==
  /\ id \in DOMAIN milestones
  /\ milestones[id].status = "ready_for_payment"
  /\ \E p \in GetEscrowPaymentsByMilestone(id) : ~IsNull(escrowPayments[p].releasedAt)

\* C2: a completeMilestone call on a stored milestone that is not
\* 'ready_for_payment' with a released escrow payment does not succeed and
\* leaves the milestone's status and completedDate as they were.
C2_CompleteOnlyWhenReadyAndReleased ==
  [][\A id \in MilestoneIdArgs, t \in Times :
       (id \in DOMAIN milestones /\ ~ReadyWithReleasedEscrow(id) /\ CompleteMilestone(id, t))
         => (ret'.out # "ok" /\ milestones'[id] = milestones[id])]_vars

ActivePayments(m) ==
  {p \in GetEscrowPaymentsByMilestone(m) : IsNull(escrowPayments[p].releasedAt)}

\* C4: a milestone never has more than one unreleased escrow payment.
C4_AtMostOneActiveDeposit ==
  \A m \in DOMAIN milestones : Cardinality(ActivePayments(m)) <= 1

\* C5: every escrow payment that a step stores is for an existing milestone and
\* carries that milestone's amount at the moment of the deposit.
C5_DepositAmountEqualsMilestoneAmount ==
  [][\A p \in (DOMAIN escrowPayments') \ (DOMAIN escrowPayments) :
       /\ escrowPayments'[p].milestoneId \in DOMAIN milestones
       /\ escrowPayments'[p].amount = milestones[escrowPayments'[p].milestoneId].amount]_vars

\* C6: a payment's releasedAt, when set, is not before its depositedAt.
C6_ReleaseNotBeforeDeposit ==
  \A p \in DOMAIN escrowPayments :
    ~IsNull(escrowPayments[p].releasedAt) =>
      Val(escrowPayments[p].releasedAt) >= escrowPayments[p].depositedAt

\* C15: a milestone's completedDate, once non-null, is never changed; it
\* becomes non-null only in a step that takes the milestone into 'completed';
\* and a completeMilestone call on a completed milestone does not succeed and
\* leaves the record as it was.
C15_CompletedDateSetOnce ==
  [][\A m \in DOMAIN milestones :
       /\ ~IsNull(milestones[m].completedDate) =>
            milestones'[m].completedDate = milestones[m].completedDate
       /\ (IsNull(milestones[m].completedDate) /\ ~IsNull(milestones'[m].completedDate)) =>
            (milestones[m].status # "completed" /\ milestones'[m].status = "completed")
       /\ \A t \in Times :
            (milestones[m].status = "completed" /\ CompleteMilestone(m, t))
              => (ret'.out # "ok" /\ milestones'[m] = milestones[m])]_vars

\* The transition graph of the milestone state machine.
MilestoneGraph ==
  { <<"not_started", "in_progress">>, <<"in_progress", "pending_review">>,
    <<"pending_review", "ready_for_payment">>, <<"ready_for_payment", "completed">> }
  \cup {<<s, "disputed">> :
          s \in {"not_started", "in_progress", "pending_review", "ready_for_payment"}}
  \cup {<<"disputed", s>> : s \in {"ready_for_payment", "not_started", "in_progress"}}

\* C18: every change of a stored milestone's status is an edge of the graph:
\* the next forward step, a move from a non-terminal status to 'disputed', or a
\* move from 'disputed' to ready_for_payment, not_started or in_progress.
C18_MilestoneStatusFollowsGraph ==
  [][\A m \in DOMAIN milestones :
       milestones'[m].status # milestones[m].status =>
         << milestones[m].status, milestones'[m].status >> \in MilestoneGraph]_vars

\* C19: a released payment's releasedAt never changes, and a
\* releaseEscrowPayment call on a released payment does not succeed.
C19_ReleaseOnlyOnce ==
  [][\A p \in DOMAIN escrowPayments :
       ~IsNull(escrowPayments[p].releasedAt) =>
         /\ escrowPayments'[p].releasedAt = escrowPayments[p].releasedAt
         /\ \A t \in Times : ReleaseEscrowPayment(p, t) => ret'.out # "ok"]_vars

\* =========================================================================
\* Contract lifecycle: createContract and updateContractStatus, the latter
\* as PATCH /api/contracts/:id/status calls it (any ContractStatus value).
\* =========================================================================
ContractIdArgs == 1..(MaxContracts + 1)

NextContract ==
  \/ Tick
  \/ \E s \in Nullable(ContractStatus), a \in Amounts :
       /\ contractIdCounter <= MaxContracts
       /\ CreateContract(1, 2, s, a, 0, MaxTime)
  \/ \E id \in ContractIdArgs, s \in ContractStatus : UpdateContractStatus(id, s)

SpecContract == Init /\ [][NextContract]_vars

\* The transition graph of the contract state machine.
ContractGraph ==
  { <<"draft", "pending">>, <<"pending", "active">>,
    <<"active", "completed">>, <<"active", "cancelled">>, <<"active", "disputed">>,
    <<"disputed", "active">>, <<"disputed", "completed">>, <<"disputed", "cancelled">> }

\* C3: every change of a stored contract's status is an edge of the graph, and
\* an updateContractStatus call asking for anything else does not succeed.
C3_ContractStatusFollowsGraph ==
  [][\A id \in DOMAIN contracts :
       /\ contracts'[id].status # contracts[id].status =>
            << contracts[id].status, contracts'[id].status >> \in ContractGraph
       /\ \A s \in ContractStatus \ {contracts[id].status} :
            (UpdateContractStatus(id, s) /\ << contracts[id].status, s >> \notin ContractGraph)
              => (ret'.out # "ok" /\ contracts'[id].status = contracts[id].status)]_vars

\* =========================================================================
\* Dispute workflow: one contract with one milestone, a payment deposited
\* against it, and the disputes opened on them.
\* =========================================================================
DisputeIdArgs == 1..(MaxDisputes + 1)
ResolutionArgs == {None, Some("refund")}
ModeratorArgs == {3}

NextDispute ==
  \/ Tick
  \/ \E s \in ContractStatus :
       /\ contractIdCounter = 1
       /\ CreateContract(1, 2, Some(s), MaxAmount, 0, MaxTime)
  \/ \E s \in MilestoneStatus :
       /\ milestoneIdCounter = 1
       /\ CreateMilestone(1, MaxAmount, Some(s), MaxTime)
  \/ /\ escrowPaymentIdCounter = 1
     /\ CreateEscrowPayment(1, 1, 2, MaxAmount, "deposited")
  \/ \E m \in {None, Some(1)} :
       /\ disputeIdCounter <= MaxDisputes
       /\ CreateDispute(1, m, 1, 2, None, None, None)
  \/ \E id \in DisputeIdArgs, s \in DisputeStatus, r \in ResolutionArgs :
       UpdateDisputeStatus(id, s, r)
  \/ \E id \in DisputeIdArgs, m \in ModeratorArgs : AssignModerator(id, m)

SpecDispute == Init /\ [][NextDispute]_vars

\* C7: a resolved dispute is terminal: no step changes its status, resolution,
\* moderatorId or resolvedAt, and an updateDisputeStatus or assignModerator call
\* on it does not succeed.
C7_ResolvedDisputeIsTerminal ==
  [][\A d \in DOMAIN disputes :
       disputes[d].status \in ResolvedStatuses =>
         /\ disputes'[d].status = disputes[d].status
         /\ disputes'[d].resolution = disputes[d].resolution
         /\ disputes'[d].moderatorId = disputes[d].moderatorId
         /\ disputes'[d].resolvedAt = disputes[d].resolvedAt
         /\ \A s \in DisputeStatus, r \in ResolutionArgs :
              UpdateDisputeStatus(d, s, r) => ret'.out # "ok"
         /\ \A m \in ModeratorArgs : AssignModerator(d, m) => ret'.out # "ok"]_vars

GetMilestonesByContract(contractId) ==
  {m \in DOMAIN milestones : milestones[m].contractId = contractId}

\* C8: resolving an open or under-review dispute of an active or disputed
\* contract for the freelancer while its milestone has an unreleased payment leaves, right after the call, that
\* payment released, the milestone 'ready_for_payment' (unless it was completed)
\* and the contract 'active' ('completed' if all its milestones are completed).
C8_ResolveForFreelancerReleases ==
  [][\A d \in DOMAIN disputes, r \in ResolutionArgs :
       ( /\ disputes[d].status \in {"open", "under_review"}
         /\ ~IsNull(disputes[d].milestoneId)
         /\ Val(disputes[d].milestoneId) \in DOMAIN milestones
         /\ disputes[d].contractId \in DOMAIN contracts
         /\ contracts[disputes[d].contractId].status \in {"active", "disputed"}
         /\ ActivePayments(Val(disputes[d].milestoneId)) # {}
         /\ UpdateDisputeStatus(d, "resolved_for_freelancer", r) )
       => LET m == Val(disputes[d].milestoneId)
              c == disputes[d].contractId
          IN /\ \A p \in ActivePayments(m) : ~IsNull(escrowPayments'[p].releasedAt)
             /\ milestones[m].status # "completed" =>
                  milestones'[m].status = "ready_for_payment"
             /\ contracts'[c].status =
                  IF \A k \in GetMilestonesByContract(c) : milestones'[k].status = "completed"
                    THEN "completed" ELSE "active"]_vars

\* C16: after every step each stored dispute has a non-null resolvedAt exactly
\* when its status is one of the three resolved statuses, and a resolvedAt that
\* was already set is left as it was.
C16_ResolvedAtTracksStatus ==
  [][\A d \in DOMAIN disputes' :
       /\ ~IsNull(disputes'[d].resolvedAt) <=> disputes'[d].status \in ResolvedStatuses
       /\ (d \in DOMAIN disputes /\ ~IsNull(disputes[d].resolvedAt)) =>
            disputes'[d].resolvedAt = disputes[d].resolvedAt]_vars

\* C17: a step that stores a new dispute does so for an existing contract whose
\* status is 'active' or 'disputed', and leaves that contract 'disputed'.
C17_OpenDisputeNeedsActiveContract ==
  [][\A d \in (DOMAIN disputes') \ (DOMAIN disputes) :
       LET c == disputes'[d].contractId
       IN /\ c \in DOMAIN contracts
          /\ contracts[c].status \in {"active", "disputed"}
          /\ contracts'[c].status = "disputed"]_vars

\* C23: an assignModerator call on a dispute that is not 'open' does not
\* succeed and leaves the dispute as it was, and no step takes a dispute from a
\* resolved status to 'under_review'.
C23_AssignModeratorOnlyFromOpen ==
  [][\A d \in DOMAIN disputes :
       /\ disputes[d].status \in ResolvedStatuses => disputes'[d].status # "under_review"
       /\ \A m \in ModeratorArgs :
            (disputes[d].status # "open" /\ AssignModerator(d, m))
              => (ret'.out # "ok" /\ disputes'[d] = disputes[d])]_vars

\* C24: resolving an open or under-review dispute of an active or disputed
\* contract for the client, its milestone not being completed, leaves, right
\* after the call, every unreleased payment of the milestone unreleased, the
\* milestone 'not_started' and the contract 'active'.
C24_ResolveForClientResetsMilestone ==
  [][\A d \in DOMAIN disputes, r \in ResolutionArgs :
       ( /\ disputes[d].status \in {"open", "under_review"}
         /\ ~IsNull(disputes[d].milestoneId)
         /\ Val(disputes[d].milestoneId) \in DOMAIN milestones
         /\ disputes[d].contractId \in DOMAIN contracts
         /\ milestones[Val(disputes[d].milestoneId)].status # "completed"
         /\ contracts[disputes[d].contractId].status \in {"active", "disputed"}
         /\ UpdateDisputeStatus(d, "resolved_for_client", r) )
       => LET m == Val(disputes[d].milestoneId)
              c == disputes[d].contractId
          IN /\ \A p \in ActivePayments(m) : IsNull(escrowPayments'[p].releasedAt)
             /\ milestones'[m].status = "not_started"
             /\ contracts'[c].status = "active"]_vars

\* =========================================================================
\* Trust score: services/ai.ts calculateTrustScore and services/trust-score.ts.
\* In this part the clock unit is one day.
\* =========================================================================
MaxRating == 5
PaymentWindow == 3

RatAdd(a, b) == Rat(a.n * b.d + b.n * a.d, a.d * b.d)
RatMul(a, b) == Rat(a.n * b.n, a.d * b.d)
\* Math.round: the nearest integer, halves towards +Infinity.
MathRound(x) == (2 * x.n + x.d) \div (2 * x.d)

TRUST_TIERS ==
  << [tier |-> "bronze", minimumScore |-> 0, platformFeeDiscount |-> 0, payoutSpeed |-> 72,
      escrowRequirements |-> "full", verificationLevel |-> "enhanced",
      prioritySupport |-> FALSE, contractTemplateAccess |-> "basic"],
     [tier |-> "silver", minimumScore |-> 50, platformFeeDiscount |-> 10, payoutSpeed |-> 48,
      escrowRequirements |-> "full", verificationLevel |-> "enhanced",
      prioritySupport |-> FALSE, contractTemplateAccess |-> "basic"],
     [tier |-> "gold", minimumScore |-> 75, platformFeeDiscount |-> 20, payoutSpeed |-> 24,
      escrowRequirements |-> "partial", verificationLevel |-> "basic",
      prioritySupport |-> TRUE, contractTemplateAccess |-> "premium"],
     [tier |-> "platinum", minimumScore |-> 90, platformFeeDiscount |-> 30, payoutSpeed |-> 6,
      escrowRequirements |-> "minimal", verificationLevel |-> "simplified",
      prioritySupport |-> TRUE, contractTemplateAccess |-> "all"] >>

\* The catch block of getUserTrustHistory.
DefaultHistory ==
  [contractsCompleted |-> 0, contractsCancelled |-> 0, averageRating |-> Rat(0, 1),
   disputesInitiated |-> 0, disputesLost |-> 0, paymentsPunctual |-> 0, paymentsLate |-> 0,
   deliverablesOnTime |-> 0, deliverablesLate |-> 0]

\* The milestones the timeliness loop counts: completed, with a completion date,
\* in one of the user's contracts.
CountedMilestones(cs) ==
  {m \in DOMAIN milestones :
     /\ milestones[m].contractId \in cs
     /\ milestones[m].status = "completed"
     /\ ~IsNull(milestones[m].completedDate)}

\* The released payments of the counted milestones.
CountedPayments(cs) ==
  {p \in DOMAIN escrowPayments :
     /\ escrowPayments[p].milestoneId \in CountedMilestones(cs)
     /\ ~IsNull(escrowPayments[p].releasedAt)}

GetUserTrustHistory(userId) ==
  IF userId \notin DOMAIN users THEN DefaultHistory
  ELSE
    LET userType == users[userId].userType
        cs == IF userType = "freelancer" THEN GetContractsByFreelancer(userId)
              ELSE IF userType = "client" THEN GetContractsByClient(userId)
              ELSE {}
        ds == GetDisputesByUser(userId)
        lost == IF userType = "freelancer" THEN "resolved_for_client"
                ELSE "resolved_for_freelancer"
        ms == CountedMilestones(cs)
        ps == CountedPayments(cs)
        Punctual(p) ==
          Val(escrowPayments[p].releasedAt)
            <= Val(milestones[escrowPayments[p].milestoneId].completedDate) + PaymentWindow
    IN [contractsCompleted |-> Cardinality({c \in cs : contracts[c].status = "completed"}),
        contractsCancelled |-> Cardinality({c \in cs : contracts[c].status = "cancelled"}),
        averageRating |-> GetUserRating(userId),
        disputesInitiated |-> Cardinality({d \in ds : disputes[d].initiatedBy = userId}),
        disputesLost |-> Cardinality({d \in ds : disputes[d].status = lost}),
        paymentsPunctual |->
          IF userType = "client" THEN Cardinality({p \in ps : Punctual(p)}) ELSE 0,
        paymentsLate |->
          IF userType = "client" THEN Cardinality({p \in ps : ~Punctual(p)}) ELSE 0,
        deliverablesOnTime |->
          IF userType = "freelancer"
            THEN Cardinality({m \in ms : Val(milestones[m].completedDate) <= milestones[m].dueDate})
            ELSE 0,
        deliverablesLate |->
          IF userType = "freelancer"
            THEN Cardinality({m \in ms : Val(milestones[m].completedDate) > milestones[m].dueDate})
            ELSE 0]

Recommendation(overallScore) ==
  IF overallScore >= 85 THEN "Highly trusted user with excellent track record"
  ELSE IF overallScore >= 70 THEN "Good standing user with solid reliability"
  ELSE IF overallScore >= 50 THEN "Average trust level, proceed with normal verification"
  ELSE IF overallScore >= 30 THEN "Some concerns - additional verification recommended"
  ELSE "High risk - enhanced verification strongly recommended"

RatingFactor(userHistory) ==
  Rat(userHistory.averageRating.n, userHistory.averageRating.d * 5)

\* (a reliability that counts deliveries and payments together, whatever the role)
ReliabilityOfAllCounters(userType, userHistory) ==
  LET onTime == userHistory.deliverablesOnTime + userHistory.paymentsPunctual
      total == onTime + userHistory.deliverablesLate + userHistory.paymentsLate
  IN IF total > 0 THEN Rat(onTime, total) ELSE Rat(1, 2)

ReliabilityFactor(userType, userHistory) ==
  IF userType = "freelancer"
    THEN LET deliverableTotal == userHistory.deliverablesOnTime + userHistory.deliverablesLate
         IN IF deliverableTotal > 0 THEN Rat(userHistory.deliverablesOnTime, deliverableTotal)
            ELSE Rat(1, 2)
    ELSE LET paymentTotal == userHistory.paymentsPunctual + userHistory.paymentsLate
         IN IF paymentTotal > 0 THEN Rat(userHistory.paymentsPunctual, paymentTotal)
            ELSE Rat(1, 2)

DisputeFactor(userHistory) ==
  LET contractTotal == userHistory.contractsCompleted + userHistory.contractsCancelled
  IN IF contractTotal > 0 THEN Rat(contractTotal - userHistory.disputesLost, contractTotal)
     ELSE Rat(1, 2)

\* Math.round((ratingFactor * 0.4 + reliabilityFactor * 0.4 + disputeFactor * 0.2) * 100)
OverallScore(ratingFactor, reliabilityFactor, disputeFactor) ==
  MathRound(RatMul(RatAdd(RatAdd(RatMul(ratingFactor, Rat(4, 10)),
                                 RatMul(reliabilityFactor, Rat(4, 10))),
                          RatMul(disputeFactor, Rat(2, 10))),
                   Rat(100, 1)))

\* (a score that takes the role from the stored user, when there is one)
TrustScoreOfStoredUser(userId, userType, userHistory) ==
  LET storedType == IF userId \in DOMAIN users THEN users[userId].userType ELSE userType
      ratingFactor == RatingFactor(userHistory)
      reliabilityFactor == ReliabilityFactor(storedType, userHistory)
      disputeFactor == DisputeFactor(userHistory)
      overallScore == OverallScore(ratingFactor, reliabilityFactor, disputeFactor)
  IN [overallScore |-> overallScore, ratingFactor |-> ratingFactor,
      reliabilityFactor |-> reliabilityFactor, disputeFactor |-> disputeFactor,
      recommendation |-> Recommendation(overallScore)]

CalculateTrustScore(userId, userType, userHistory) ==
  LET ratingFactor == RatingFactor(userHistory)
      reliabilityFactor == ReliabilityFactor(userType, userHistory)
      disputeFactor == DisputeFactor(userHistory)
      overallScore == OverallScore(ratingFactor, reliabilityFactor, disputeFactor)
  IN [overallScore |-> overallScore, ratingFactor |-> ratingFactor,
      reliabilityFactor |-> reliabilityFactor, disputeFactor |-> disputeFactor,
      recommendation |-> Recommendation(overallScore)]

\* (a reduce that takes a tier only when the score is above its minimumScore)
RECURSIVE ReduceTiersAbove(_, _, _)
ReduceTiersAbove(i, highest, overallScore) ==
  IF i > Len(TRUST_TIERS) THEN highest
  ELSE LET tier == TRUST_TIERS[i]
       IN ReduceTiersAbove(i + 1,
            IF overallScore > tier.minimumScore /\ tier.minimumScore >= highest.minimumScore
              THEN tier ELSE highest,
            overallScore)

\* TRUST_TIERS.reduce(..., TRUST_TIERS[0]) from index i on.
RECURSIVE ReduceTiers(_, _, _)
ReduceTiers(i, highest, overallScore) ==
  IF i > Len(TRUST_TIERS) THEN highest
  ELSE LET tier == TRUST_TIERS[i]
       IN ReduceTiers(i + 1,
            IF overallScore >= tier.minimumScore /\ tier.minimumScore >= highest.minimumScore
              THEN tier ELSE highest,
            overallScore)

\* (the tier whose minimumScore is exactly the score, else the first tier)
TierAtThreshold(overallScore) ==
  IF \E i \in 1..Len(TRUST_TIERS) : TRUST_TIERS[i].minimumScore = overallScore
    THEN TRUST_TIERS[CHOOSE i \in 1..Len(TRUST_TIERS) : TRUST_TIERS[i].minimumScore = overallScore]
    ELSE TRUST_TIERS[1]

CurrentTier(overallScore) == ReduceTiers(1, TRUST_TIERS[1], overallScore)

\* (a findIndex that always answers the first position)
IndexOfFirstTier(name) == 1

\* findIndex: the first index whose tier has the name (0-based in the code).
TierIndex(name) == CHOOSE i \in 1..Len(TRUST_TIERS) : TRUST_TIERS[i].tier = name

\* The catch block of calculateUserTrustScore.
\* (a default profile that still tells the way to the next tier)
DefaultProfileWithNextTier ==
  [trustScore |-> [overallScore |-> 0, ratingFactor |-> Rat(0, 1),
                   reliabilityFactor |-> Rat(0, 1), disputeFactor |-> Rat(0, 1),
                   recommendation |-> "Unable to calculate trust score"],
   tier |-> TRUST_TIERS[1], nextTier |-> Some(TRUST_TIERS[2]),
   pointsToNextTier |-> Some(TRUST_TIERS[2].minimumScore)]

DefaultProfile ==
  [trustScore |-> [overallScore |-> 0, ratingFactor |-> Rat(0, 1),
                   reliabilityFactor |-> Rat(0, 1), disputeFactor |-> Rat(0, 1),
                   recommendation |-> "Unable to calculate trust score"],
   tier |-> TRUST_TIERS[1], nextTier |-> None, pointsToNextTier |-> None]

CalculateUserTrustScore(userId) ==
  IF userId \notin DOMAIN users THEN DefaultProfile
  ELSE
    LET trustScore ==
          CalculateTrustScore(userId, users[userId].userType, GetUserTrustHistory(userId))
        currentTier == CurrentTier(trustScore.overallScore)
        tierIndex == TierIndex(currentTier.tier)
        hasNext == currentTier.tier # "platinum" /\ tierIndex < Len(TRUST_TIERS)
    IN [trustScore |-> trustScore,
        tier |-> currentTier,
        nextTier |-> IF hasNext THEN Some(TRUST_TIERS[tierIndex + 1]) ELSE None,
        pointsToNextTier |->
          IF hasNext THEN Some(TRUST_TIERS[tierIndex + 1].minimumScore - trustScore.overallScore)
          ELSE None]

\* (a profile call that keeps the score it computed in the user's record)
ProfileCallStoringScore(userId) ==
  /\ ret' = Returned("calculateUserTrustScore", userId, CalculateUserTrustScore(userId))
  /\ users' = IF userId \in DOMAIN users
                THEN MapSet(users, userId,
                       [userType |-> users[userId].userType,
                        trustScore |-> CalculateUserTrustScore(userId).trustScore.overallScore])
                ELSE users
  /\ UNCHANGED << userIdCounter, contractVars, milestoneVars, escrowVars, disputeVars,
                  reviewVars, now, reqVars, calls,
                  otherVars >>

\* A caller asks for a user's trust profile; the store is only read.
TrustProfileCall(userId) ==
  /\ ret' = Returned("calculateUserTrustScore", userId, CalculateUserTrustScore(userId))
  /\ UNCHANGED << userVars, contractVars, milestoneVars, escrowVars, disputeVars,
                  reviewVars, now, reqVars, calls,
                  otherVars >>

\* A caller reads a user's trust history; the store is only read.
HistoryCall(userId) ==
  /\ ret' = Returned("getUserTrustHistory", userId, GetUserTrustHistory(userId))
  /\ UNCHANGED << userVars, contractVars, milestoneVars, escrowVars, disputeVars,
                  reviewVars, now, reqVars, calls,
                  otherVars >>

\* The value argument and the result of applyTrustBenefits: number | string.
Number(x) == [type |-> "number", num |-> x]
Text(x) == [type |-> "string", str |-> x]

\* (a fee that grows by the discount instead of shrinking)
ApplyDiscountAsSurcharge(userId, operation, value) ==
  LET tier == CalculateUserTrustScore(userId).tier
  IN CASE operation = "fee" ->
            IF value.type = "number"
              THEN Number(RatMul(value.num, RatAdd(Rat(1, 1), Rat(tier.platformFeeDiscount, 100))))
              ELSE value
       [] operation = "payout" -> Number(Rat(tier.payoutSpeed, 1))
       [] operation = "escrow" -> Text(tier.escrowRequirements)
       [] operation = "verification" -> Text(tier.verificationLevel)
       [] OTHER -> value

\* calculateUserTrustScore never throws, so the catch block is not reached.
ApplyTrustBenefits(userId, operation, value) ==
  LET tier == CalculateUserTrustScore(userId).tier
  IN CASE operation = "fee" ->
            IF value.type = "number"
              THEN Number(RatMul(value.num,
                                 RatAdd(Rat(1, 1), Rat(0 - tier.platformFeeDiscount, 100))))
              ELSE value
       [] operation = "payout" -> Number(Rat(tier.payoutSpeed, 1))
       [] operation = "escrow" -> Text(tier.escrowRequirements)
       [] operation = "verification" -> Text(tier.verificationLevel)
       [] OTHER -> value

\* A caller applies a user's tier benefits; the store is only read.
BenefitsCall(userId, operation, value) ==
  /\ ret' = [op |-> "applyTrustBenefits", id |-> userId,
             out |-> ApplyTrustBenefits(userId, operation, value),
             operation |-> operation, value |-> value]
  /\ UNCHANGED << userVars, contractVars, milestoneVars, escrowVars, disputeVars,
                  reviewVars, now, reqVars, calls,
                  otherVars >>

UserIdArgs == 1..(MaxUsers + 1)
MinRating == 1
Ratings == {MinRating, (MinRating + MaxRating) \div 2, MaxRating}
ReleaseDays == {0, PaymentWindow + 1}

NextTrust ==
  \/ \E t \in {"freelancer", "client"} :
       /\ userIdCounter <= MaxUsers
       /\ CreateUser(t)
  \/ \E s \in {"active", "completed", "cancelled"} :
       /\ contractIdCounter = 1
       /\ CreateContract(1, 2, Some(s), MaxAmount, 0, MaxTime)
  \/ /\ milestoneIdCounter = 1
     /\ CreateMilestone(1, MaxAmount, None, 0)
  \/ \E t \in Times : CompleteMilestone(1, t)
  \/ /\ escrowPaymentIdCounter = 1
     /\ CreateEscrowPayment(1, 1, 2, MaxAmount, "deposited")
  \/ \E t \in ReleaseDays : ReleaseEscrowPayment(1, t)
  \/ \E s \in {"open", "resolved_for_client", "resolved_for_freelancer"} :
       /\ disputeIdCounter <= MaxLostDisputes
       /\ CreateDispute(1, None, 1, 2, None, Some(s), None)
  \/ \E u \in 1..MaxUsers, r \in Ratings :
       /\ reviewIdCounter <= MaxReviews
       /\ CreateReview(1, (u % MaxUsers) + 1, u, r)
  \/ \E u \in UserIdArgs : TrustProfileCall(u)

SpecTrust == Init /\ [][NextTrust]_vars

\* C10: the overallScore a calculateUserTrustScore call returns is an integer
\* in 0..100 (and so is calculateTrustScore's for the user's history).
C10_OverallScoreInRange ==
  ret.op = "calculateUserTrustScore" =>
    /\ ret.out.trustScore.overallScore \in 0..100
    /\ ret.id \in DOMAIN users =>
         CalculateTrustScore(ret.id, users[ret.id].userType,
                             GetUserTrustHistory(ret.id)).overallScore \in 0..100

\* C13: a calculateUserTrustScore call for a stored user who has received no
\* reviews returns ratingFactor 0.5; and when that user is a freelancer with no
\* lost disputes, no completed or cancelled contracts and every deliverable on
\* time (3 of 3 in the scenario), it returns reliabilityFactor 1, disputeFactor
\* 0.5, overallScore 70 and the tier silver.
C13_NoReviewsGivesNeutralRating ==
  ( /\ ret.op = "calculateUserTrustScore"
    /\ ret.id \in DOMAIN users
    /\ GetReviewsByUser(ret.id) = {} )
  => LET h == GetUserTrustHistory(ret.id)
         score == ret.out.trustScore
     IN /\ RatEq(score.ratingFactor, Rat(1, 2))
        /\ ( /\ users[ret.id].userType = "freelancer"
             /\ h.disputesLost = 0
             /\ h.contractsCompleted + h.contractsCancelled = 0
             /\ h.deliverablesOnTime > 0 /\ h.deliverablesLate = 0 )
           => /\ RatEq(score.reliabilityFactor, Rat(1, 1))
              /\ RatEq(score.disputeFactor, Rat(1, 2))
              /\ score.overallScore = 70
              /\ ret.out.tier.tier = "silver"

\* 1 - disputesLost / (contractsCompleted + contractsCancelled) clamped into
\* [0,1]; 0.5 when the denominator is 0.
ClampedDisputeFactor(userHistory) ==
  LET contractTotal == userHistory.contractsCompleted + userHistory.contractsCancelled
  IN IF contractTotal = 0 THEN Rat(1, 2)
     ELSE IF userHistory.disputesLost >= contractTotal THEN Rat(0, 1)
     ELSE Rat(contractTotal - userHistory.disputesLost, contractTotal)

\* C14: the disputeFactor a calculateUserTrustScore call returns for a stored
\* user is 1 - disputesLost/(contractsCompleted + contractsCancelled) clamped
\* into [0,1] (0.5 when the denominator is 0); it is never negative.
C14_DisputeFactorClamped ==
  (ret.op = "calculateUserTrustScore" /\ ret.id \in DOMAIN users)
  => /\ RatEq(ret.out.trustScore.disputeFactor,
              ClampedDisputeFactor(GetUserTrustHistory(ret.id)))
     /\ RatLeq(Rat(0, 1), ret.out.trustScore.disputeFactor)

\* =========================================================================
\* calculateTrustScore called directly, twice, with arguments of the caller's
\* choice, while users are being registered in the store.
\* =========================================================================
MaxCount == 1
ScoredUsers == {1, MaxUsers + 1}

\* Histories a caller may pass: completed contracts c, lost disputes l, and k
\* timeliness events (deliveries on time, payments late), each 0..MaxCount.
HistoryArgs ==
  {[contractsCompleted |-> c, contractsCancelled |-> 0, averageRating |-> Rat(r, 1),
    disputesInitiated |-> 0, disputesLost |-> l, paymentsPunctual |-> 0, paymentsLate |-> k,
    deliverablesOnTime |-> k, deliverablesLate |-> 0] :
     c \in 0..MaxCount, l \in 0..MaxCount, k \in 0..MaxCount, r \in {0, MaxRating}}

\* await calculateTrustScore(userId, userType, userHistory), with the users
\* stored at the time of the call.
ScoreCall(userId, userType, userHistory) ==
  /\ Len(calls) < 2
  /\ calls' = Append(calls,
       [fn |-> "calculateTrustScore", userId |-> userId, userType |-> userType,
        userHistory |-> userHistory, usersThen |-> users,
        out |-> CalculateTrustScore(userId, userType, userHistory)])
  /\ UNCHANGED << userVars, contractVars, milestoneVars, escrowVars, disputeVars,
                  reviewVars, now, ret, reqVars,
                  otherVars >>

NextScore ==
  \/ \E t \in {"freelancer", "client"} :
       /\ userIdCounter = 1
       /\ CreateUser(t)
  \/ \E u \in ScoredUsers, t \in {"freelancer", "client"}, h \in HistoryArgs : ScoreCall(u, t, h)

SpecScore == Init /\ [][NextScore]_vars

Scores == 0..100

\* TRUST_TIERS.reduce(...) for one overallScore.
TierCall(score) ==
  /\ Len(calls) < 2
  /\ calls' = Append(calls, [fn |-> "currentTier", score |-> score, out |-> CurrentTier(score)])
  /\ UNCHANGED << userVars, contractVars, milestoneVars, escrowVars, disputeVars,
                  reviewVars, now, ret, reqVars,
                  otherVars >>

NextTiers == \E score \in Scores : TierCall(score)

SpecTiers == Init /\ [][NextTiers]_vars

\* C12: of two scores in 0..100, the higher or equal one resolves to a tier at
\* the same or a later position of bronze < silver < gold < platinum.
C12_TierResolutionMonotonic ==
  \A i, j \in DOMAIN calls :
    ( /\ calls[i].fn = "currentTier" /\ calls[j].fn = "currentTier"
      /\ calls[i].score >= calls[j].score )
    => TierIndex(calls[i].out.tier) >= TierIndex(calls[j].out.tier)

\* A score just above a tier's threshold resolved after the threshold itself,
\* and both in a tier above the first.
C12_Witness ==
  /\ Len(calls) = 2
  /\ calls[1].fn = "currentTier" /\ calls[2].fn = "currentTier"
  /\ calls[1].out.minimumScore = calls[1].score
  /\ calls[2].score = calls[1].score + 1
  /\ calls[2].out.tier = calls[1].out.tier
  /\ calls[1].out.tier # TRUST_TIERS[1].tier

\* C25: the tier resolved for a score in 0..100 is a tier of TRUST_TIERS whose
\* minimumScore is <= the score and is the largest such minimumScore: bronze
\* for 0..49, silver for 50..74, gold for 75..89, platinum for 90..100.
C25_TierIsHighestReached ==
  \A i \in DOMAIN calls :
    calls[i].fn = "currentTier" =>
      LET score == calls[i].score
          tier == calls[i].out
      IN /\ \E k \in 1..Len(TRUST_TIERS) : TRUST_TIERS[k] = tier
         /\ tier.minimumScore <= score
         /\ \A k \in 1..Len(TRUST_TIERS) :
              TRUST_TIERS[k].minimumScore <= score =>
                TRUST_TIERS[k].minimumScore <= tier.minimumScore
         /\ tier.tier = IF score <= 49 THEN "bronze"
                        ELSE IF score <= 74 THEN "silver"
                        ELSE IF score <= 89 THEN "gold"
                        ELSE "platinum"

\* The highest score and the score just below the gold threshold have been
\* resolved, to platinum and to silver.
C25_Witness ==
  /\ Len(calls) = 2
  /\ calls[1].fn = "currentTier" /\ calls[2].fn = "currentTier"
  /\ calls[1].score = 100 /\ calls[1].out.tier = "platinum"
  /\ calls[2].score = 74 /\ calls[2].out.tier = "silver"

\* =========================================================================
\* releaseEscrowPayment on a store that holds a contract, its milestone, a
\* dispute on them and the payments deposited against the milestone.
\* =========================================================================
NextRelease ==
  \/ Tick
  \/ /\ contractIdCounter = 1
     /\ CreateContract(1, 2, Some("active"), MaxAmount, 0, MaxTime)
  \/ /\ milestoneIdCounter = 1
     /\ CreateMilestone(1, MaxAmount, None, MaxTime)
  \/ /\ disputeIdCounter = 1
     /\ CreateDispute(1, Some(1), 1, 2, None, None, None)
  \/ /\ escrowPaymentIdCounter <= MaxPayments
     /\ CreateEscrowPayment(1, 1, 2, MaxAmount, "deposited")
  \/ \E id \in PaymentIdArgs, t \in Times : ReleaseEscrowPayment(id, t)

SpecRelease == Init /\ [][NextRelease]_vars

\* C20: a step after which the last storage call is releaseEscrowPayment(id)
\* leaves every milestone, contract and dispute and every payment other than id
\* as they were, stores no new payment, and changes nothing but releasedAt in
\* payment id; when id is not stored, no payment changes.
C20_ReleaseChangesOnlyReleasedAt ==
  [][ret'.op = "releaseEscrowPayment" =>
       /\ milestones' = milestones
       /\ contracts' = contracts
       /\ disputes' = disputes
       /\ DOMAIN escrowPayments' = DOMAIN escrowPayments
       /\ \A p \in DOMAIN escrowPayments :
            IF p = ret'.id
              THEN [escrowPayments'[p] EXCEPT !.releasedAt = escrowPayments[p].releasedAt]
                     = escrowPayments[p]
              ELSE escrowPayments'[p] = escrowPayments[p]]_vars

\* A payment has just been released while another payment of the same
\* milestone is still unreleased, with the milestone, its contract and a
\* dispute on them stored.
C20_Witness ==
  /\ ret.op = "releaseEscrowPayment" /\ ret.out = "ok"
  /\ ~IsNull(escrowPayments[ret.id].releasedAt)
  /\ \E p \in DOMAIN escrowPayments :
       /\ p # ret.id
       /\ escrowPayments[p].milestoneId = escrowPayments[ret.id].milestoneId
       /\ IsNull(escrowPayments[p].releasedAt)
  /\ escrowPayments[ret.id].milestoneId \in DOMAIN milestones
  /\ milestones[escrowPayments[ret.id].milestoneId].status = "not_started"
  /\ contracts # << >>
  /\ disputes # << >>

\* =========================================================================
\* Two contracts between different parties, created at different times with
\* different amounts, and status updates on them.
\* =========================================================================
NextContractFields ==
  \/ Tick
  \/ \E s \in {None, Some("pending")}, a \in Amounts :
       /\ contractIdCounter \in {1, 2}
       /\ CreateContract(contractIdCounter, contractIdCounter + 1, s, a, now, MaxTime)
  \/ \E id \in {1, 2, 3}, s \in ContractStatus : UpdateContractStatus(id, s)

SpecContractFields == Init /\ [][NextContractFields]_vars

UpdatingOps ==
  {"updateContractStatus", "updateMilestoneStatus", "completeMilestone",
   "releaseEscrowPayment", "updateDisputeStatus", "assignModerator"}

\* The ids stored in the map the operation reads, of the maps given.
StoredIdsIn(op, cs, ms, ps, ds) ==
  CASE op = "updateContractStatus" -> DOMAIN cs
    [] op \in {"updateMilestoneStatus", "completeMilestone"} -> DOMAIN ms
    [] op = "releaseEscrowPayment" -> DOMAIN ps
    [] op \in {"updateDisputeStatus", "assignModerator"} -> DOMAIN ds

StoredIds(op) == StoredIdsIn(op, contracts, milestones, escrowPayments, disputes)

\* Every map and id counter of the store.
WholeStore ==
  << userVars, contractVars, milestoneVars, escrowVars, disputeVars, reviewVars >>

NextNotFound ==
  \/ /\ contractIdCounter = 1
     /\ CreateContract(1, 2, None, MaxAmount, 0, MaxTime)
  \/ /\ milestoneIdCounter = 1
     /\ CreateMilestone(1, MaxAmount, None, MaxTime)
  \/ /\ escrowPaymentIdCounter = 1
     /\ CreateEscrowPayment(1, 1, 2, MaxAmount, "deposited")
  \/ /\ disputeIdCounter = 1
     /\ CreateDispute(1, Some(1), 1, 2, None, None, None)
  \/ \E id \in {1, 2} : UpdateContractStatus(id, "active")
  \/ \E id \in {1, 2} : UpdateMilestoneStatus(id, "in_progress")
  \/ \E id \in {1, 2} : CompleteMilestone(id, now)
  \/ \E id \in {1, 2} : ReleaseEscrowPayment(id, now)
  \/ \E id \in {1, 2} : UpdateDisputeStatus(id, "under_review", None)
  \/ \E id \in {1, 2}, m \in ModeratorArgs : AssignModerator(id, m)

SpecNotFound == Init /\ [][NextNotFound]_vars

\* C22: a step whose storage call is a status update, completion, release or
\* moderator assignment for an id that is not stored returns undefined (the
\* route answers 404), leaves every map and counter of the store as it was, and
\* stores nothing under that id.
C22_AbsentIdLeavesStoreUnchanged ==
  [][(ret'.op \in UpdatingOps /\ ret'.id \notin StoredIds(ret'.op)) =>
       /\ ret'.out = "undefined"
       /\ RouteAnswer(ret'.out) = 404
       /\ WholeStore' = WholeStore
       /\ ret'.id \notin StoredIdsIn(ret'.op, contracts', milestones', escrowPayments',
                                   disputes')]_vars

\* A completion addressed to a missing milestone has just returned undefined
\* on a store that holds a contract, a milestone, a payment and a dispute.
C22_Witness ==
  /\ ret = Returned("completeMilestone", 2, "undefined")
  /\ DOMAIN contracts = {1} /\ DOMAIN milestones = {1}
  /\ DOMAIN escrowPayments = {1} /\ DOMAIN disputes = {1}
  /\ milestones[1].status = "in_progress"

\* =========================================================================
\* calculateTrustScore (ai.ts) called with histories whose four timeliness
\* counters vary independently.
\* =========================================================================
TimelinessArgs ==
  {[contractsCompleted |-> 1, contractsCancelled |-> 0, averageRating |-> Rat(MaxRating, 1),
    disputesInitiated |-> 0, disputesLost |-> 0, paymentsPunctual |-> p, paymentsLate |-> q,
    deliverablesOnTime |-> d, deliverablesLate |-> e] :
     p \in 0..MaxCount, q \in 0..MaxCount, d \in 0..MaxCount, e \in 0..MaxCount}

NextReliability ==
  \E t \in {"freelancer", "client"}, h \in TimelinessArgs : ScoreCall(1, t, h)

SpecReliability == Init /\ [][NextReliability]_vars

\* C28: the reliabilityFactor returned by calculateTrustScore is
\* onTime / (onTime + late) over deliverablesOnTime and deliverablesLate for a
\* freelancer and over paymentsPunctual and paymentsLate for a client, is 1/2
\* when those two counters are both 0, and lies in [0,1].
C28_ReliabilityFromRoleCounters ==
  \A i \in 1..Len(calls) :
    calls[i].fn = "calculateTrustScore" =>
      LET h == calls[i].userHistory
          onTime == IF calls[i].userType = "freelancer"
                      THEN h.deliverablesOnTime ELSE h.paymentsPunctual
          late == IF calls[i].userType = "freelancer"
                    THEN h.deliverablesLate ELSE h.paymentsLate
          rf == calls[i].out.reliabilityFactor
      IN /\ onTime + late > 0 => RatEq(rf, Rat(onTime, onTime + late))
         /\ onTime + late = 0 => RatEq(rf, Rat(1, 2))
         /\ RatLeq(Rat(0, 1), rf) /\ RatLeq(rf, Rat(1, 1))

\* One history, all deliveries on time and all payments late, scored for a
\* freelancer (reliability 1) and for a client (reliability 0).
C28_Witness ==
  /\ Len(calls) = 2
  /\ calls[1].userHistory = calls[2].userHistory
  /\ calls[1].userHistory.deliverablesOnTime = MaxCount
  /\ calls[1].userHistory.deliverablesLate = 0
  /\ calls[1].userHistory.paymentsPunctual = 0
  /\ calls[1].userHistory.paymentsLate = MaxCount
  /\ calls[1].userType = "freelancer" /\ RatEq(calls[1].out.reliabilityFactor, Rat(1, 1))
  /\ calls[2].userType = "client" /\ RatEq(calls[2].out.reliabilityFactor, Rat(0, 1))

\* =========================================================================
\* analyzeMessageForRedFlags (ai.ts).  The message is represented by the
\* comparative score the sentiment analyzer gives it, the context by the
\* length of its messageHistory, and the risk oracle by its reply to the one
\* request the function sends: the request is rejected, or it resolves with a
\* content that is not JSON, or with a content that parses to some value.
\* =========================================================================
HistoryThreshold == 5
SentimentThreshold == Rat(0 - 3, 10)

SentimentArgs ==
  {Rat(0 - 1, 1), Rat(0 - 1, 2), Rat(0 - 3, 10), Rat(0 - 1, 10), Rat(0, 1), Rat(1, 2)}
HistoryLengths == 0..(HistoryThreshold + 1)

RedFlags(toxicity, risk) ==
  [toxicity |-> toxicity, scopeCreep |-> risk, delayRisk |-> risk, paymentRisk |-> risk]

\* Math.max(0, -sentiment.comparative)
LocalToxicity(comparative) ==
  IF comparative.n < 0 THEN Rat(0 - comparative.n, comparative.d) ELSE Rat(0, 1)

\* The result of the path that does not consult the oracle.
BasicAnalysis(comparative) ==
  [redFlags |-> RedFlags(LocalToxicity(comparative), Rat(1, 10)),
   analysis |-> "No major red flags detected in this message.",
   suggestedActions |-> << "Continue normal communication" >>]

\* The result of the catch block.
FallbackAnalysis(comparative) ==
  [redFlags |-> RedFlags(LocalToxicity(comparative), Rat(1, 5)),
   analysis |-> "Unable to perform full analysis. Basic sentiment analysis completed.",
   suggestedActions |-> << "Monitor conversation manually" >>]

\* Replies of the oracle: a rejected request, a content that is not JSON, a
\* JSON object that reports a toxic message, and a JSON object that reports
\* moderate risks and advises manual monitoring.
OracleReplies ==
  {[kind |-> "rejects"],
   [kind |-> "resolves", content |-> [json |-> FALSE]],
   [kind |-> "resolves",
    content |-> [json |-> TRUE,
                 value |-> [redFlags |-> RedFlags(Rat(9, 10), Rat(1, 2)),
                            analysis |-> "The message is hostile.",
                            suggestedActions |-> << "Escalate to a moderator" >>]]],
   [kind |-> "resolves",
    content |-> [json |-> TRUE,
                 value |-> [redFlags |-> RedFlags(Rat(1, 2), Rat(1, 5)),
                            analysis |-> "Unable to perform full analysis. Basic sentiment analysis completed.",
                            suggestedActions |-> << "Monitor conversation manually" >>]]]}

\* JSON.parse(aiResponse.choices[0].message.content): throws on a content that
\* is not JSON, and yields the value the content denotes otherwise.
JsonParseThrows(content) == ~content.json
JsonParse(content) == content.value

\* The function's result (out), with the path that produced it and the number
\* of requests sent to the oracle.
AnalyzeMessageForRedFlags(comparative, historyLength, reply) ==
  IF ~RatLeq(SentimentThreshold, comparative) \/ historyLength > HistoryThreshold
    THEN IF reply.kind = "rejects" \/ JsonParseThrows(reply.content)
           THEN [out |-> FallbackAnalysis(comparative), path |-> "fallback", oracleCalls |-> 1]
           ELSE [out |-> JsonParse(reply.content), path |-> "oracle", oracleCalls |-> 1]
    ELSE [out |-> BasicAnalysis(comparative), path |-> "local", oracleCalls |-> 0]

\* await analyzeMessageForRedFlags(message, context)
AnalyzeCall(comparative, historyLength, reply) ==
  /\ Len(calls) < 2
  /\ LET r == AnalyzeMessageForRedFlags(comparative, historyLength, reply)
     IN calls' = Append(calls,
          [fn |-> "analyzeMessageForRedFlags", comparative |-> comparative,
           historyLength |-> historyLength, path |-> r.path,
           oracleCalls |-> r.oracleCalls, out |-> r.out])
  /\ UNCHANGED << userVars, contractVars, milestoneVars, escrowVars, disputeVars,
                  reviewVars, now, ret, reqVars,
                  otherVars >>

NextAnalyze ==
  \E c \in SentimentArgs, n \in HistoryLengths, reply \in OracleReplies : AnalyzeCall(c, n, reply)

SpecAnalyze == Init /\ [][NextAnalyze]_vars

\* C30: when the oracle request fails, analyzeMessageForRedFlags returns the
\* local fallback result after that one request, and no result returned on
\* the oracle path or on the path without the oracle equals a result returned
\* on the fallback path, so that the caller can tell the fallback from the
\* returned value.
C30_FallbackIsDistinguishable ==
  \A i \in 1..Len(calls) :
    (calls[i].fn = "analyzeMessageForRedFlags" /\ calls[i].path = "fallback") =>
      /\ calls[i].oracleCalls = 1
      /\ calls[i].out = FallbackAnalysis(calls[i].comparative)
      /\ \A j \in 1..Len(calls) :
           (calls[j].fn = "analyzeMessageForRedFlags" /\ calls[j].path # "fallback") =>
             calls[j].out # calls[i].out

\* =========================================================================
\* Trust profiles (trust-score.ts): one contract between users 1 and 2 with
\* one milestone, one lost dispute and one review of user 2, and callers that
\* read histories, ask for profiles and apply tier benefits.
\* =========================================================================
\* The callers' users: the contract's client, its freelancer, and an id under
\* which no user is ever stored.
ProfileUsers == {1, 2, MaxUsers + 1}

\* The operation and value of a call of applyTrustBenefits: a fee on a zero,
\* a positive and a negative amount of money and on a string; the three
\* policies; an operation the function does not know.
BenefitArgs ==
  ({"fee"} \X {Number(Rat(0, 1)), Number(Rat(MaxAmount, 1)), Number(Rat(0 - 1, 1)), Text("full")})
    \cup ({"payout", "escrow", "verification"} \X {Number(Rat(MaxAmount, 1))})
    \cup ({"priority"} \X {Number(Rat(MaxAmount, 1)), Text("full")})

ReadOps == {"getUserTrustHistory", "calculateUserTrustScore", "applyTrustBenefits"}

NextProfile ==
  \/ \E t \in {"freelancer", "client"} : userIdCounter <= MaxUsers /\ CreateUser(t)
  \/ \E s \in {"active", "completed"} :
       /\ contractIdCounter = 1
       /\ CreateContract(1, 2, Some(s), MaxAmount, 0, MaxTime)
  \/ milestoneIdCounter = 1 /\ CreateMilestone(1, MaxAmount, None, 0)
  \/ \E t \in Times : CompleteMilestone(1, t)
  \/ /\ disputeIdCounter = 1
     /\ CreateDispute(1, None, 1, 2, None, Some("resolved_for_client"), None)
  \/ \E r \in {MinRating, MaxRating} : reviewIdCounter = 1 /\ CreateReview(1, 1, 2, r)
  \/ \E u \in ProfileUsers : HistoryCall(u)
  \/ \E u \in ProfileUsers : TrustProfileCall(u)
  \/ \E u \in ProfileUsers, a \in BenefitArgs : BenefitsCall(u, a[1], a[2])

SpecProfile == Init /\ [][NextProfile]_vars

\* What the specification's nextTier says of a profile p: below platinum the
\* tier one position up and the positive distance to its minimum score, at
\* platinum nothing.
NextTierOf(p) ==
  IF p.tier.tier # "platinum"
    THEN \E i \in 1..(Len(TRUST_TIERS) - 1) :
           /\ TRUST_TIERS[i].tier = p.tier.tier
           /\ p.nextTier = Some(TRUST_TIERS[i + 1])
           /\ p.pointsToNextTier =
                Some(TRUST_TIERS[i + 1].minimumScore - p.trustScore.overallScore)
           /\ Val(p.pointsToNextTier) > 0
    ELSE p.nextTier = None /\ p.pointsToNextTier = None

C27_BenefitsFollowTier ==
  ret.op = "applyTrustBenefits" =>
    LET tier == CalculateUserTrustScore(ret.id).tier
        value == ret.value
        out == ret.out
    IN /\ tier \in {TRUST_TIERS[i] : i \in 1..Len(TRUST_TIERS)}
       /\ (ret.operation = "fee" /\ value.type = "number") =>
            /\ out.type = "number"
            /\ RatEq(out.num, [n |-> value.num.n * (100 - tier.platformFeeDiscount),
                               d |-> value.num.d * 100])
            /\ RatLeq(Rat(0, 1), value.num) =>
                 RatLeq(out.num, value.num) /\ RatLeq(Rat(0, 1), out.num)
       /\ ret.operation = "payout" => out = Number(Rat(tier.payoutSpeed, 1))
       /\ ret.operation = "escrow" => out = Text(tier.escrowRequirements)
       /\ ret.operation = "verification" => out = Text(tier.verificationLevel)
       /\ ret.operation \notin {"fee", "payout", "escrow", "verification"} => out = value

\* A fee of MaxAmount was discounted for a stored user above bronze: the
\* result is below the value and not negative.
C27_Witness ==
  /\ ret.op = "applyTrustBenefits" /\ ret.id \in DOMAIN users
  /\ ret.operation = "fee" /\ ret.value = Number(Rat(MaxAmount, 1))
  /\ CalculateUserTrustScore(ret.id).tier.platformFeeDiscount > 0
  /\ ~RatEq(ret.out.num, ret.value.num)
  /\ RatLeq(ret.out.num, ret.value.num) /\ RatLeq(Rat(0, 1), ret.out.num)

\* C29: a step that returns from getUserTrustHistory, calculateUserTrustScore
\* or applyTrustBenefits leaves every user, contract, milestone, escrow
\* payment, dispute and review record (and every id counter) unchanged, and
\* what it returns is derived from the store as it is at the call: nothing
\* computed by an earlier call is kept.
C29_TrustComputationReadOnly ==
  [][ret'.op \in ReadOps =>
       /\ WholeStore' = WholeStore
       /\ ret'.op = "getUserTrustHistory" => ret'.out = GetUserTrustHistory(ret'.id)
       /\ ret'.op = "calculateUserTrustScore" =>
            /\ ret'.out = CalculateUserTrustScore(ret'.id)
            /\ ret'.id \in DOMAIN users =>
                 ret'.out.trustScore =
                   CalculateTrustScore(ret'.id, users[ret'.id].userType,
                                       GetUserTrustHistory(ret'.id))
       /\ ret'.op = "applyTrustBenefits" =>
            ret'.out = ApplyTrustBenefits(ret'.id, ret'.operation, ret'.value)]_vars

\* The history of user 2 has changed since the store was empty (a completed
\* milestone, a review of MaxRating), and the profile computed now shows the
\* review's rating.
C29_Witness ==
  /\ ret.op = "calculateUserTrustScore" /\ ret.id = 2 /\ 2 \in DOMAIN users
  /\ DOMAIN reviews = {1} /\ reviews[1].rating = MaxRating
  /\ RatEq(ret.out.trustScore.ratingFactor, Rat(1, 1))
  /\ DOMAIN milestones = {1} /\ milestones[1].status = "completed"

\* C35: for a userId that is not stored, calculateUserTrustScore returns
\* overallScore 0, the three factors 0, the bronze tier and neither nextTier
\* nor pointsToNextTier, and applyTrustBenefits applies the bronze policy: a
\* numeric fee unchanged, payout 72, escrow 'full', verification 'enhanced'.
C35_MissingUserGetsBronzeDefault ==
  /\ (ret.op = "calculateUserTrustScore" /\ ret.id \notin DOMAIN users) =>
       /\ ret.out.trustScore.overallScore = 0
       /\ RatEq(ret.out.trustScore.ratingFactor, Rat(0, 1))
       /\ RatEq(ret.out.trustScore.reliabilityFactor, Rat(0, 1))
       /\ RatEq(ret.out.trustScore.disputeFactor, Rat(0, 1))
       /\ ret.out.tier.tier = "bronze"
       /\ ret.out.nextTier = None /\ ret.out.pointsToNextTier = None
  /\ (ret.op = "applyTrustBenefits" /\ ret.id \notin DOMAIN users) =>
       /\ (ret.operation = "fee" /\ ret.value.type = "number") =>
            ret.out.type = "number" /\ RatEq(ret.out.num, ret.value.num)
       /\ ret.operation = "payout" => ret.out = Number(Rat(72, 1))
       /\ ret.operation = "escrow" => ret.out = Text("full")
       /\ ret.operation = "verification" => ret.out = Text("enhanced")

\* The profile of a userId that is not stored was computed while other users,
\* a contract and a review are stored.
C35_Witness ==
  /\ ret.op = "calculateUserTrustScore" /\ ret.id \notin DOMAIN users
  /\ users # << >> /\ contracts # << >> /\ reviews # << >>
  /\ ret.out.tier.tier = "bronze" /\ ret.out.nextTier = None

\* =========================================================================
\* Payment timeliness of a client (getUserTrustHistory): user 1 is the client
\* of contract 1, whose milestone is completed at some day and has up to
\* MaxPayments deposits, each released at the last punctual day for some
\* completion day or later.
\* =========================================================================
ReleaseDayArgs == {PaymentWindow + d : d \in 0..(MaxTime + 1)}

NextPunctual ==
  \/ userIdCounter = 1 /\ CreateUser("client")
  \/ contractIdCounter = 1 /\ CreateContract(1, 2, Some("active"), MaxAmount, 0, MaxTime)
  \/ milestoneIdCounter = 1 /\ CreateMilestone(1, MaxAmount, None, MaxTime)
  \/ \E t \in Times : CompleteMilestone(1, t)
  \/ /\ escrowPaymentIdCounter <= MaxPayments
     /\ CreateEscrowPayment(1, 1, 2, MaxAmount, "deposited")
  \/ \E p \in 1..MaxPayments, t \in ReleaseDayArgs : ReleaseEscrowPayment(p, t)
  \/ HistoryCall(1)

SpecPunctual == Init /\ [][NextPunctual]_vars

\* C37: in the history of a client, paymentsPunctual counts the released
\* payments of completed milestones of the client's contracts whose releasedAt
\* is at most PaymentWindow days after the milestone's completion,
\* paymentsLate counts the other released ones, and together they count one
\* release per completed milestone of the client's contracts.
C37_OneTimedReleasePerCompletedMilestone ==
  (/\ ret.op = "getUserTrustHistory"
   /\ ret.id \in DOMAIN users
   /\ users[ret.id].userType = "client") =>
    LET cs == {c \in DOMAIN contracts : contracts[c].clientId = ret.id}
        done == {m \in DOMAIN milestones :
                   milestones[m].contractId \in cs /\ milestones[m].status = "completed"}
        released == {p \in DOMAIN escrowPayments :
                       /\ escrowPayments[p].milestoneId \in done
                       /\ ~IsNull(escrowPayments[p].releasedAt)}
        InTime(p) ==
          Val(escrowPayments[p].releasedAt)
            <= Val(milestones[escrowPayments[p].milestoneId].completedDate) + PaymentWindow
    IN /\ ret.out.paymentsPunctual = Cardinality({p \in released : InTime(p)})
       /\ ret.out.paymentsLate = Cardinality({p \in released : ~InTime(p)})
       /\ ret.out.paymentsPunctual + ret.out.paymentsLate = Cardinality(done)

\* =========================================================================
\* Concurrent requests on one contract, through the routes
\*   PATCH /api/contracts/:id/status, PATCH /api/milestones/:id/status and
\*   POST /api/milestones/:id/complete.
\* A handler runs without interruption from its start to its first await, and
\* the storage method it awaits has no await of its own: the body check, the
\* Map.get, and the Map.set are one step (HandleRequest); the code after the
\* await, which sends the response, is a second step (Respond).  Steps of
\* different requests interleave freely.  The clock stands still here: every
\* new Date() of a batch reads the same instant.
\* =========================================================================
\* An id under which no milestone is ever stored.
MissingMilestoneId == MaxMilestones + 1

Request(kind, id, status) == [kind |-> kind, id |-> id, status |-> status]

\* The requests a client may send: on contract 1, on milestone 1, on a missing
\* milestone, and one with a status outside the enum.
RequestList ==
  << Request("patchContractStatus", 1, "active"),
     Request("patchContractStatus", 1, "completed"),
     Request("patchContractStatus", 1, "bogus"),
     Request("patchMilestoneStatus", 1, "in_progress"),
     Request("patchMilestoneStatus", 1, "ready_for_payment"),
     Request("patchMilestoneStatus", MissingMilestoneId, "in_progress"),
     Request("completeMilestone", 1, "-"),
     Request("completeMilestone", MissingMilestoneId, "-") >>

\* MaxInFlight requests that arrive together (listed in RequestList order:
\* which of them is called first in the list means nothing).
Batches ==
  {b \in [1..MaxInFlight -> DOMAIN RequestList] :
     \A i \in 1..(MaxInFlight - 1) : b[i] <= b[i + 1]}

\* A request that has arrived and whose handler has not started.
Received(q) ==
  [kind |-> q.kind, id |-> q.id, status |-> q.status,
   pc |-> "received", out |-> "pending", at |-> 0, resp |-> 0]

\* Object.values(ContractStatus / MilestoneStatus).includes(status)
ValidBody(q) ==
  CASE q.kind = "patchContractStatus" -> q.status \in ContractStatus
    [] q.kind = "patchMilestoneStatus" -> q.status \in MilestoneStatus
    [] q.kind = "completeMilestone" -> TRUE

\* The map the awaited storage method works on.
MapOf(kind) == IF kind = "patchContractStatus" THEN "contracts" ELSE "milestones"

\* The record the storage method stores for a record it found.
Written(q, rec, at) ==
  CASE q.kind = "patchContractStatus" -> ContractWithStatus(rec, q.status)
    [] q.kind = "patchMilestoneStatus" -> MilestoneWithStatus(rec, q.status)
    [] q.kind = "completeMilestone" -> CompletedMilestone(rec, at)

\* this.contracts and this.milestones as they are now.
Store == [contracts |-> contracts, milestones |-> milestones]

\* (a handler that worked on the records as they were when the request arrived)
RecordsAtArrival(r) == batchBase[MapOf(reqs[r].kind)]

\* The records the storage method's Map.get reads: the live map.
RecordsSeenBy(r) == Store[MapOf(reqs[r].kind)]

Idle == reqs = << >>
AllDone == ~Idle /\ \A r \in DOMAIN reqs : reqs[r].pc = "done"

\* MaxInFlight requests arrive together.
IssueBatch(b) ==
  /\ Idle
  /\ reqs' = [r \in 1..MaxInFlight |-> Received(RequestList[b[r]])]
  /\ batchBase' = Store
  /\ UNCHANGED << userVars, contractVars, milestoneVars, escrowVars, disputeVars,
                  reviewVars, now, ret, calls,
                  otherVars >>

\* The handler up to its await: 400 on a bad body, else the storage call.
HandleRequest(r) ==
  /\ r \in DOMAIN reqs
  /\ reqs[r].pc = "received"
  /\ LET q == reqs[r]
         seen == RecordsSeenBy(r)
         found == q.id \in DOMAIN seen
     IN IF ~ValidBody(q)
          THEN /\ reqs' = [reqs EXCEPT ![r].pc = "done", ![r].resp = 400]
               /\ UNCHANGED << contracts, milestones >>
          ELSE /\ reqs' = [reqs EXCEPT ![r].pc = "awaiting", ![r].at = now,
                                       ![r].out = IF found THEN "ok" ELSE "undefined"]
               /\ contracts' =
                    IF found /\ MapOf(q.kind) = "contracts"
                      THEN MapSet(contracts, q.id, Written(q, seen[q.id], now))
                      ELSE contracts
               /\ milestones' =
                    IF found /\ MapOf(q.kind) = "milestones"
                      THEN MapSet(milestones, q.id, Written(q, seen[q.id], now))
                      ELSE milestones
  /\ UNCHANGED << userVars, contractIdCounter, milestoneIdCounter, escrowVars, disputeVars,
                  reviewVars, now, ret, batchBase, calls,
                  otherVars >>

\* The handler after its await: 404 when the store returned undefined, else 200.
Respond(r) ==
  /\ r \in DOMAIN reqs
  /\ reqs[r].pc = "awaiting"
  /\ reqs' = [reqs EXCEPT ![r].pc = "done", ![r].resp = RouteAnswer(reqs[r].out)]
  /\ UNCHANGED << userVars, contractVars, milestoneVars, escrowVars, disputeVars,
                  reviewVars, now, ret, batchBase, calls,
                  otherVars >>

\* Every response has been sent; the next requests arrive later.
RetireBatch ==
  /\ AllDone
  /\ reqs' = << >>
  /\ batchBase' = [contracts |-> << >>, milestones |-> << >>]
  /\ UNCHANGED << userVars, contractVars, milestoneVars, escrowVars, disputeVars,
                  reviewVars, now, ret, calls,
                  otherVars >>

NextRoutes ==
  \/ /\ Idle
     /\ contractIdCounter = 1
     /\ CreateContract(1, 2, None, MaxAmount, 0, MaxTime)
  \/ /\ Idle
     /\ milestoneIdCounter <= MaxMilestones
     /\ CreateMilestone(1, MaxAmount, None, MaxTime)
  \/ \E b \in Batches : IssueBatch(b)
  \/ \E r \in 1..MaxInFlight : HandleRequest(r)
  \/ \E r \in 1..MaxInFlight : Respond(r)
  \/ RetireBatch

SpecRoutes == Init /\ [][NextRoutes]_vars

\* One request served alone on the maps st: the maps after it and its response.
ServeOn(st, q) ==
  IF ~ValidBody(q) THEN [st |-> st, resp |-> 400]
  ELSE LET m == st[MapOf(q.kind)]
       IN IF q.id \notin DOMAIN m THEN [st |-> st, resp |-> 404]
          ELSE [st |-> [st EXCEPT ![MapOf(q.kind)] = MapSet(m, q.id, Written(q, m[q.id], q.at))],
                resp |-> 200]

\* The requests served one after the other, in the order given.
RECURSIVE SerialRun(_, _, _, _)
SerialRun(order, i, st, resps) ==
  IF i > Len(order) THEN [st |-> st, resps |-> resps]
  ELSE LET o == ServeOn(st, reqs[order[i]])
       IN SerialRun(order, i + 1, o.st, [resps EXCEPT ![order[i]] = o.resp])

Orders(n) == {f \in [1..n -> 1..n] : \A i, j \in 1..n : f[i] = f[j] => i = j}

\* C9: when the requests that arrived together have all been answered, the
\* stored contracts and milestones and every response are those of serving the
\* requests one after the other in some order: no request's write is lost.
C9_ConcurrentRequestsSerialize ==
  AllDone =>
    \E order \in Orders(Len(reqs)) :
      LET o == SerialRun(order, 1, batchBase, [r \in DOMAIN reqs |-> 0])
      IN /\ o.st = Store
         /\ \A r \in DOMAIN reqs : o.resps[r] = reqs[r].resp

\* Two answered requests on the same stored milestone, a status update and a
\* completion, both 200, the completion having been handled last.
C9_Witness ==
  /\ AllDone
  /\ \E c, u \in DOMAIN reqs :
       /\ reqs[c].kind = "completeMilestone"
       /\ reqs[u].kind = "patchMilestoneStatus"
       /\ reqs[u].id = reqs[c].id
       /\ reqs[c].resp = 200
       /\ reqs[u].resp = 200
       /\ milestones[reqs[c].id].status = "completed"


\* =========================================================================
\* POST /api/auth/register under concurrent requests.  The handler awaits
\* three storage calls; each storage method runs to its return when it is
\* called, and the handler continues in a later step.  A handler step is the
\* code from one await to the next: parse the body and look the username up
\* (RegisterReceive), test the result and look the email up
\* (RegisterCheckUsername), test the result and create the user
\* (RegisterCheckEmail), send the response (RegisterRespond).
\* =========================================================================
Usernames == {"ann", "bob"}
Emails == {"ann@x", "bob@x"}

\* Request bodies: every username with every email, and a body without a
\* username, which insertUserSchema rejects.
RegisterBodies ==
  [username : Usernames \cup {"undefined"}, email : Emails, userType : {"freelancer"}]

\* insertUserSchema.parse(req.body) does not throw.
UserBodyParses(body) == body.username # "undefined"

GetUserByUsername(username) ==
  IF \E id \in DOMAIN users : users[id].username = username THEN "found" ELSE "undefined"

GetUserByEmail(email) ==
  IF \E id \in DOMAIN users : users[id].email = email THEN "found" ELSE "undefined"

\* A client sends a request; at most MaxInFlight requests are sent in all.
PostRegister(body) ==
  /\ Len(reqs) < MaxInFlight
  /\ reqs' = Append(reqs, [kind |-> "register", body |-> body, pc |-> "received",
                           existing |-> "none", resp |-> 0])
  /\ UNCHANGED << userVars, contractVars, milestoneVars, escrowVars, disputeVars,
                  reviewVars, now, ret, batchBase, calls,
                  otherVars >>

RegisterReceive(r) ==
  /\ r \in DOMAIN reqs /\ reqs[r].pc = "received"
  /\ reqs' = IF UserBodyParses(reqs[r].body)
               THEN [reqs EXCEPT ![r].pc = "awaitingUsername",
                                 ![r].existing = GetUserByUsername(reqs[r].body.username)]
               ELSE [reqs EXCEPT ![r].pc = "done", ![r].resp = 400]
  /\ UNCHANGED << userVars, contractVars, milestoneVars, escrowVars, disputeVars,
                  reviewVars, now, ret, batchBase, calls,
                  otherVars >>

RegisterCheckUsername(r) ==
  /\ r \in DOMAIN reqs /\ reqs[r].pc = "awaitingUsername"
  /\ reqs' = IF reqs[r].existing # "undefined"
               THEN [reqs EXCEPT ![r].pc = "done", ![r].resp = 400]
               ELSE [reqs EXCEPT ![r].pc = "awaitingEmail",
                                 ![r].existing = GetUserByEmail(reqs[r].body.email)]
  /\ UNCHANGED << userVars, contractVars, milestoneVars, escrowVars, disputeVars,
                  reviewVars, now, ret, batchBase, calls,
                  otherVars >>

\* createUser stores the body under the next id (bio and profileImage, which
\* default to null, are left out).
RegisterCheckEmail(r) ==
  /\ r \in DOMAIN reqs /\ reqs[r].pc = "awaitingEmail"
  /\ IF reqs[r].existing # "undefined"
       THEN /\ reqs' = [reqs EXCEPT ![r].pc = "done", ![r].resp = 400]
            /\ UNCHANGED userVars
       ELSE /\ reqs' = [reqs EXCEPT ![r].pc = "awaitingCreate"]
            /\ users' = MapSet(users, userIdCounter, reqs[r].body)
            /\ userIdCounter' = userIdCounter + 1
  /\ UNCHANGED << contractVars, milestoneVars, escrowVars, disputeVars,
                  reviewVars, now, ret, batchBase, calls,
                  otherVars >>

RegisterRespond(r) ==
  /\ r \in DOMAIN reqs /\ reqs[r].pc = "awaitingCreate"
  /\ reqs' = [reqs EXCEPT ![r].pc = "done", ![r].resp = 201]
  /\ UNCHANGED << userVars, contractVars, milestoneVars, escrowVars, disputeVars,
                  reviewVars, now, ret, batchBase, calls,
                  otherVars >>

NextRegister ==
  \/ \E body \in RegisterBodies : PostRegister(body)
  \/ \E r \in 1..MaxInFlight : RegisterReceive(r)
  \/ \E r \in 1..MaxInFlight : RegisterCheckUsername(r)
  \/ \E r \in 1..MaxInFlight : RegisterCheckEmail(r)
  \/ \E r \in 1..MaxInFlight : RegisterRespond(r)

SpecRegister == Init /\ [][NextRegister]_vars

\* C31: no two stored users have the same username or the same email,
\* whatever the interleaving of the register handlers' steps.
C31_UsernamesAndEmailsUnique ==
  \A i \in DOMAIN users : \A j \in DOMAIN users :
    i # j => /\ users[i].username # users[j].username
             /\ users[i].email # users[j].email


\* =========================================================================
\* Referential integrity of the store: contracts, milestones addressed to
\* stored and missing contracts with amounts from 0 to above every contract
\* total, a deposit, and disputes that name stored and missing milestones.
\* =========================================================================
\* Milestone amounts a caller may pass: zero, the amounts a contract total
\* can take, and one above every contract total.
MilestoneAmountArgs == {0} \cup Amounts \cup {MaxAmount + 1}

\* Milestone ids a dispute may name: none, the stored ones, a missing one.
DisputedMilestoneArgs == {None} \cup {Some(m) : m \in 1..(MaxMilestones + 1)}

NextIntegrity ==
  \/ \E s \in {"draft", "active"}, a \in Amounts :
       /\ contractIdCounter <= MaxContracts
       /\ CreateContract(1, 2, Some(s), a, 0, MaxTime)
  \/ \E id \in 1..MaxContracts : UpdateContractStatus(id, "active")
  \/ \E c \in 1..(MaxContracts + 1), a \in MilestoneAmountArgs :
       /\ milestoneIdCounter <= MaxMilestones
       /\ CreateMilestone(c, a, None, MaxTime)
  \/ \E m \in 1..MaxMilestones :
       /\ escrowPaymentIdCounter = 1
       /\ CreateEscrowPayment(m, 1, 2, MaxAmount, "deposited")
  \/ \E c \in 1..MaxContracts, m \in DisputedMilestoneArgs :
       /\ disputeIdCounter <= MaxDisputes
       /\ CreateDispute(c, m, 1, 2, None, None, None)

SpecIntegrity == Init /\ [][NextIntegrity]_vars

\* C32: every stored contract whose status is 'active' has an escrow payment
\* deposited against one of its milestones.
C32_ActiveContractHasDeposit ==
  \A c \in DOMAIN contracts :
    contracts[c].status = "active" =>
      \E p \in DOMAIN escrowPayments :
        /\ escrowPayments[p].milestoneId \in DOMAIN milestones
        /\ milestones[escrowPayments[p].milestoneId].contractId = c

\* C33: every stored milestone belongs to a stored contract and has an amount
\* that is positive and at most that contract's totalAmount.
C33_MilestoneWithinContract ==
  \A m \in DOMAIN milestones :
    /\ milestones[m].contractId \in DOMAIN contracts
    /\ milestones[m].amount > 0
    /\ milestones[m].amount <= contracts[milestones[m].contractId].totalAmount

\* C34: every stored dispute that names a milestone names a stored milestone
\* whose contractId is the dispute's contractId.
C34_DisputeMilestoneOfSameContract ==
  \A d \in DOMAIN disputes :
    ~IsNull(disputes[d].milestoneId) =>
      /\ Val(disputes[d].milestoneId) \in DOMAIN milestones
      /\ milestones[Val(disputes[d].milestoneId)].contractId = disputes[d].contractId


\* =========================================================================
\* Ids of created records: every create operation of the store, called in any
\* order, at most MaxCreates times in all.
\* =========================================================================
MaxCreates == 3

\* The number of ids drawn so far from the counters.
IdsDrawn ==
  (userIdCounter - 1) + (contractIdCounter - 1) + (milestoneIdCounter - 1)
    + (escrowPaymentIdCounter - 1) + (disputeIdCounter - 1) + (reviewIdCounter - 1)
    + (notificationIdCounter - 1)

NextIds ==
  \/ IdsDrawn < MaxCreates /\ CreateUser("client")
  \/ \E v \in {None, Some(TRUE)} : IdsDrawn < MaxCreates /\ SetupTwoFactorAuth(1, v)
  \/ IdsDrawn < MaxCreates /\ CreateContract(1, 2, None, MaxAmount, 0, MaxTime)
  \/ IdsDrawn < MaxCreates /\ CreateMilestone(1, MaxAmount, None, MaxTime)
  \/ IdsDrawn < MaxCreates /\ CreateEscrowPayment(1, 1, 2, MaxAmount, "deposited")
  \/ IdsDrawn < MaxCreates /\ CreateDispute(1, None, 1, 2, None, None, None)
  \/ IdsDrawn < MaxCreates /\ CreateReview(1, 1, 2, MaxRating)
  \/ IdsDrawn < MaxCreates /\ CreateNotification(1)

SpecIds == Init /\ [][NextIds]_vars

\* C38: a step that changes the map of an entity type is a create of that
\* type, and it stores one record under an id that is not in the map and is
\* above every id in it, leaving the records already stored as they are.
C38_CreatesUseFreshIncreasingIds ==
  [][LET Fresh(m, m2, op) ==
           m2 # m =>
             /\ ret'.op = op
             /\ ret'.id \notin DOMAIN m
             /\ DOMAIN m2 = DOMAIN m \cup {ret'.id}
             /\ \A j \in DOMAIN m : j < ret'.id /\ m2[j] = m[j]
     IN /\ Fresh(users, users', "createUser")
        /\ Fresh(twoFactorAuths, twoFactorAuths', "setupTwoFactorAuth")
        /\ Fresh(contracts, contracts', "createContract")
        /\ Fresh(milestones, milestones', "createMilestone")
        /\ Fresh(escrowPayments, escrowPayments', "createEscrowPayment")
        /\ Fresh(disputes, disputes', "createDispute")
        /\ Fresh(reviews, reviews', "createReview")
        /\ Fresh(notifications, notifications', "createNotification")]_vars

\* A 2FA setup between two user creations: the users have ids 1 and 3, the
\* 2FA record id 2.
C38_Witness ==
  /\ DOMAIN users = {1, 3}
  /\ DOMAIN twoFactorAuths = {2}
  /\ ret = Returned("createUser", 3, "ok")


\* =========================================================================
\* API keys and the authentication middleware (api-integration.ts).
\* Hashes and signatures are terms: sha256 and HMAC are taken to have no
\* collisions, and the string that is signed is the tuple of its parts.
\* crypto.randomBytes(16) is taken not to repeat: a generated key is one that
\* was never issued before.
\* =========================================================================
ReplayWindow == 300

KeyNames == {"sk_live_a", "sk_live_b"}
DefaultPermissions == {"read:contracts", "read:milestones"}
PermissionArgs == {DefaultPermissions, {"write:contracts"}}

\* The secret generateApiKey returns with a key, and its stored sha256 digest.
SecretOf(apiKey) == [secretFor |-> apiKey]
Sha256(text) == [sha256 |-> text]

GenerateApiKey(userId, permissions) ==
  \E apiKey \in KeyNames \ issuedKeys :
    /\ apiKeys' = MapSet(apiKeys, apiKey,
         [userId |-> userId, secretKey |-> Sha256(SecretOf(apiKey)),
          permissions |-> permissions, createdAt |-> now, lastUsed |-> None])
    /\ issuedKeys' = issuedKeys \cup {apiKey}
    /\ ret' = [op |-> "generateApiKey", id |-> userId,
               out |-> [apiKey |-> apiKey, secretKey |-> SecretOf(apiKey)]]
    /\ UNCHANGED << userVars, contractVars, milestoneVars, escrowVars, disputeVars,
                    reviewVars, now, reqVars, calls, twoFactorAuths, notificationVars >>

\* apiKeys.delete(apiKey): true when the key was stored.
RevokeApiKey(apiKey) ==
  /\ apiKeys' = [k \in DOMAIN apiKeys \ {apiKey} |-> apiKeys[k]]
  /\ ret' = [op |-> "revokeApiKey", id |-> 0,
             out |-> [apiKey |-> apiKey, deleted |-> apiKey \in DOMAIN apiKeys]]
  /\ UNCHANGED << userVars, contractVars, milestoneVars, escrowVars, disputeVars,
                  reviewVars, now, reqVars, calls, twoFactorAuths, notificationVars,
                  issuedKeys >>

\* An endpoint is a path: one of the patterns below or "/api/users", followed
\* by nothing or by "/1".  None of these patterns is a prefix of another.
Endpoint(pattern, rest) == [pattern |-> pattern, rest |-> rest]
Endpoints ==
  {Endpoint("/api/contracts", ""), Endpoint("/api/contracts", "/1"), Endpoint("/api/users", "")}

Methods == {"GET", "POST"}
ToLowerCase(method) == IF method = "GET" THEN "get" ELSE "post"

permissionMap ==
  ("/api/contracts" :> ("get" :> "read:contracts" @@ "post" :> "write:contracts"
                          @@ "patch" :> "write:contracts" @@ "delete" :> "delete:contracts"))
  @@ ("/api/milestones" :> ("get" :> "read:milestones" @@ "post" :> "write:milestones"
                              @@ "patch" :> "write:milestones" @@ "delete" :> "delete:milestones"))
  @@ ("/api/payments" :> ("get" :> "read:payments" @@ "post" :> "write:payments"))
  @@ ("/api/invoices" :> ("get" :> "read:invoices" @@ "post" :> "write:invoices"))

\* The exact match and the startsWith match find the same pattern here.
GetRequiredPermission(endpoint, method) ==
  IF endpoint.pattern \in DOMAIN permissionMap
       /\ method \in DOMAIN permissionMap[endpoint.pattern]
    THEN Some(permissionMap[endpoint.pattern][method])
    ELSE None

\* An x-timestamp header: the decimal digits of a number, or other text.
Digits(n) == [text |-> "digits", value |-> n]
OtherText == [text |-> "abc", value |-> 0]

\* parseInt(timestamp, 10): the number, or NaN.
ParseInt(header) ==
  IF header.text = "digits" THEN [nan |-> FALSE, value |-> header.value]
  ELSE [nan |-> TRUE, value |-> 0]

\* Math.abs(currentTime - requestTime) > 300; a comparison with NaN is false.
RequestExpired(currentTime, requestTime) ==
  /\ ~requestTime.nan
  /\ (IF currentTime >= requestTime.value THEN currentTime - requestTime.value
      ELSE requestTime.value - currentTime) > ReplayWindow

\* `${method}${endpoint}${timestamp}${requestBody}` and its HMAC under a key.
StringToSign(method, endpoint, timestamp, requestBody) ==
  << method, endpoint, timestamp, requestBody >>
Hmac(key, text) == [key |-> key, text |-> text]

\* A request as the middleware reads it: three headers (absent or a value),
\* the path and the method; the body is {}.
ApiRequest(apiKey, signature, timestamp, path, method) ==
  [apiKey |-> apiKey, signature |-> signature, timestamp |-> timestamp,
   path |-> path, method |-> method, body |-> "{}"]

Answer(status, nextCalled, userId) ==
  [status |-> status, nextCalled |-> nextCalled, userId |-> userId]

\* What the middleware does with a request: the status it answers with (0 when
\* it answers nothing), whether it calls next(), and req.userId.
AuthenticateOutcome(req) ==
  IF IsNull(req.apiKey) \/ IsNull(req.signature) THEN Answer(401, FALSE, None)
  ELSE IF Val(req.apiKey) \notin DOMAIN apiKeys THEN Answer(401, FALSE, None)
  ELSE
    LET keyInfo == apiKeys[Val(req.apiKey)]
        method == ToLowerCase(req.method)
        requiredPermission == GetRequiredPermission(req.path, method)
    IN IF ~IsNull(requiredPermission) /\ Val(requiredPermission) \notin keyInfo.permissions
         THEN Answer(403, FALSE, None)
       ELSE IF IsNull(req.timestamp) THEN Answer(401, FALSE, None)
       ELSE IF RequestExpired(now, ParseInt(Val(req.timestamp))) THEN Answer(401, FALSE, None)
       ELSE IF Val(req.signature)
                 # Hmac(keyInfo.secretKey,
                        StringToSign(method, req.path, Val(req.timestamp), req.body))
         THEN Answer(401, FALSE, None)
       ELSE Answer(0, TRUE, Some(keyInfo.userId))

AuthenticateApiRequest(req) ==
  /\ apiKeys' = IF AuthenticateOutcome(req).nextCalled
                  THEN [apiKeys EXCEPT ![Val(req.apiKey)].lastUsed = Some(now)]
                  ELSE apiKeys
  /\ ret' = [op |-> "authenticateApiRequest", id |-> 0, req |-> req,
             apiKeysThen |-> apiKeys, currentTime |-> now,
             out |-> AuthenticateOutcome(req)]
  /\ UNCHANGED << userVars, contractVars, milestoneVars, escrowVars, disputeVars,
                  reviewVars, now, reqVars, calls, twoFactorAuths, notificationVars,
                  issuedKeys >>

\* The requests clients send now: under a key, to an endpoint with a method,
\* stamped with the current second, the last second of the window, the first
\* second after it or other text, and signed over exactly these parts with
\* the digest of the key's secret, with the secret itself, or not signed; the
\* same without a timestamp; and a signed request without a key.
ApiRequests ==
  {ApiRequest(Some(k),
              IF s = "unsigned" THEN None
              ELSE Some(Hmac(IF s = "digest" THEN Sha256(SecretOf(k)) ELSE SecretOf(k),
                             StringToSign(ToLowerCase(m), e, Val(t), "{}"))),
              t, e, m) :
     k \in KeyNames, s \in {"unsigned", "digest", "secret"},
     t \in {Some(Digits(now)), Some(Digits(now + ReplayWindow)),
            Some(Digits(now + ReplayWindow + 1)), Some(OtherText)},
     e \in Endpoints, m \in Methods}
  \cup {ApiRequest(Some(k), Some(Hmac(Sha256(SecretOf(k)), "no timestamp")), None, e, "GET") :
          k \in KeyNames, e \in Endpoints}
  \cup {ApiRequest(None, Some(Hmac(Sha256(SecretOf(k)), "no key")), Some(Digits(now)),
                   Endpoint("/api/contracts", ""), "GET") : k \in KeyNames}

NextApiAuth ==
  \/ \E p \in PermissionArgs : GenerateApiKey(1, p)
  \/ \E k \in KeyNames : RevokeApiKey(k)
  \/ \E req \in ApiRequests : AuthenticateApiRequest(req)

SpecApiAuth == Init /\ [][NextApiAuth]_vars

\* C36: the middleware calls next() and sets req.userId only for a request
\* whose x-api-key is stored at that moment (generated and not revoked since),
\* whose key holds the permission the path and method require, whose
\* x-timestamp is within ReplayWindow seconds of the current time and whose
\* signature is the expected one; every other request is answered 401 or 403
\* and not passed on.
C36_OnlyAuthenticRequestsPass ==
  ret.op = "authenticateApiRequest" =>
    LET req == ret.req
        keys == ret.apiKeysThen
        out == ret.out
        method == ToLowerCase(req.method)
        requiredPermission == GetRequiredPermission(req.path, method)
        Authentic ==
          /\ ~IsNull(req.apiKey) /\ Val(req.apiKey) \in DOMAIN keys
          /\ IsNull(requiredPermission)
               \/ Val(requiredPermission) \in keys[Val(req.apiKey)].permissions
          /\ ~IsNull(req.timestamp)
          /\ Val(req.timestamp).text = "digits"
          /\ Val(req.timestamp).value - ret.currentTime <= ReplayWindow
          /\ ret.currentTime - Val(req.timestamp).value <= ReplayWindow
          /\ ~IsNull(req.signature)
          /\ Val(req.signature)
               = Hmac(keys[Val(req.apiKey)].secretKey,
                      StringToSign(method, req.path, Val(req.timestamp), req.body))
    IN /\ out.nextCalled => Authentic /\ out.userId = Some(keys[Val(req.apiKey)].userId)
       /\ ~out.nextCalled => out.status \in {401, 403} /\ out.userId = None

====
